---- MODULE Spec2Model ----
(***************************************************************************)
(* Model of the tus protocol handlers of pkg/handler/unrouted_handler.go:  *)
(* PostFile, PostFileV2, HeadFile, PatchFile, GetFile, DelFile, writeChunk *)
(* finishUploadIfComplete, terminateUpload, lockUpload, the cancellation   *)
(* watchdog of newContext and the progress emitter of sendProgressMessages.*)
(* Every request is served by its own goroutine; a handler is cut into     *)
(* steps at its blocking calls (lock, store operation, channel send, body  *)
(* read) so that the steps of concurrent requests interleave.              *)
(***************************************************************************)
EXTENDS Integers, Sequences, FiniteSets, TLC

\* ------------------------------------------------------------------ bounds
\* Largest upload size, Content-Length and body length in bytes.
MaxLen == 1
\* Number of requests served in one run.
MaxReq == 3
\* Number of failures of the store and of clients' connections in one run.
MaxFaults == 1
\* GracefulRequestCompletionTimeout is at most MaxDelay units of time.
MaxDelay == 2
\* Entries of a metadata map.
MaxEntries == 2
\* Length of a metadata key in bytes.
MaxKeyLen == 2
\* Length of a metadata value in bytes.
MaxValueLen == 3
\* Elements of an Upload-Metadata header sent by a client.
MaxElements == 3

\* The goroutines serving requests concurrently.
Procs == {1, 2}
\* Upload IDs handed out by the store: at most one per request.
IDs == 1..MaxReq
Lens == 0..MaxLen

VARIABLES
    config,    \* handler.config: limits, notification flags, hooks
    composer,  \* handler.composer: the capability flags of the store
    store,     \* the data store: ID -> upload (state, FileInfo, finish count)
    locks,     \* the locker: ID -> holder of the lock, or NoProc
    pc,        \* position of each request's handler
    rq,        \* the request served by each goroutine (method, headers)
    loc,       \* the handler's local variables (info, lock, resp, err)
    ctx,       \* the HttpContext: cancel cause, body reader, watchdog
    emitter,   \* the goroutine started by sendProgressMessages
    sending,   \* the event a handler is blocked sending on a channel
    events,    \* per upload, what the consumers of the channels received
    hist,      \* history: bytes written per upload, interleaving observed
    alloc,     \* requests started, next upload ID, failures so far
    clients,   \* how many requests the clients have in flight at a time
    mw,        \* the Middleware's run for a request: request, response
    delayed,   \* the contexts newContext builds: request, cancellable, delayed
    metadata,  \* an Upload-Metadata header being serialized and parsed
    buckets    \* the store composer handler.composer points to, per request

vars == <<config, composer, store, locks, pc, rq, loc, ctx, emitter, sending,
          events, hist, alloc, clients, mw, delayed, metadata, buckets>>

NoProc == 0

\* ------------------------------------------------------------ error catalog
\* The default HTTP status of each error; an error that is not in the
\* catalog ("ErrStore" stands for any store or hook error) is sent as 500.
ErrStatus(e) ==
    CASE e = "ErrUnsupportedVersion" -> 412
      [] e = "ErrMaxSizeExceeded" -> 413
      [] e = "ErrInvalidContentType" -> 400
      [] e = "ErrInvalidUploadLength" -> 400
      [] e = "ErrInvalidOffset" -> 400
      [] e = "ErrNotFound" -> 404
      [] e = "ErrFileLocked" -> 423
      [] e = "ErrLockTimeout" -> 500
      [] e = "ErrMismatchOffset" -> 409
      [] e = "ErrSizeExceeded" -> 413
      [] e = "ErrNotImplemented" -> 501
      [] e = "ErrUploadNotFinished" -> 400
      [] e = "ErrInvalidConcat" -> 400
      [] e = "ErrModifyFinal" -> 403
      [] e = "ErrUploadLengthAndUploadDeferLength" -> 400
      [] e = "ErrInvalidUploadDeferLength" -> 400
      [] e = "ErrUploadStoppedByServer" -> 400
      [] e = "ErrUploadRejectedByServer" -> 400
      [] e = "ErrUploadInterrupted" -> 400
      [] e = "ErrServerShutdown" -> 503
      [] e = "ErrOriginNotAllowed" -> 403
      [] e = "ErrReadTimeout" -> 500
      [] e = "ErrConnectionReset" -> 500
      [] OTHER -> 500

\* The errors of the catalog: the values of type models.Error the handlers
\* and the store return.
Catalog ==
    {"ErrUnsupportedVersion", "ErrMaxSizeExceeded", "ErrInvalidContentType",
     "ErrInvalidUploadLength", "ErrInvalidOffset", "ErrNotFound",
     "ErrFileLocked", "ErrLockTimeout", "ErrMismatchOffset", "ErrSizeExceeded",
     "ErrNotImplemented", "ErrUploadNotFinished", "ErrInvalidConcat",
     "ErrModifyFinal", "ErrUploadLengthAndUploadDeferLength",
     "ErrInvalidUploadDeferLength", "ErrUploadStoppedByServer",
     "ErrUploadRejectedByServer", "ErrUploadInterrupted", "ErrServerShutdown",
     "ErrOriginNotAllowed", "ErrReadTimeout", "ErrConnectionReset"}

\* A sink that sends every error under its own name.
detailedErrAsGiven(err) == [code |-> err, status |-> ErrStatus(err)]

\* detailedErr in sendError: the error itself when it is a models.Error,
\* ERR_INTERNAL_SERVER_ERROR with status 500 otherwise. An error of the
\* catalog is named by its variable, which stands for its code.
detailedErr(err) ==
    IF err \in Catalog THEN [code |-> err, status |-> ErrStatus(err)]
    ELSE [code |-> "ERR_INTERNAL_SERVER_ERROR", status |-> 500]

\* ------------------------------------------------------------------- values
\* models.FileInfo, the fields the handlers read and write.
FileInfo(size, deferred, offset, partial, final) ==
    [Size |-> size, SizeIsDeferred |-> deferred, Offset |-> offset,
     IsPartial |-> partial, IsFinal |-> final]

ZeroInfo == FileInfo(0, FALSE, 0, FALSE, FALSE)

\* An upload of the store: state "none" (never created), "live" or "gone"
\* (terminated); finished counts the successful FinishUpload calls.
NoUpload == [state |-> "none", info |-> ZeroInfo, finished |-> 0]

\* A request: the method and the headers the handlers read.
\*   chunk         Content-Type is application/offset+octet-stream
\*   length        r.ContentLength, -1 when unknown (chunked encoding)
\*   uploadOffset  Upload-Offset, -1 when missing, malformed or negative
\*   uploadLength  Upload-Length, -1 when missing, -2 when malformed
\*   deferLength   Upload-Defer-Length, "" when missing
\*   concat, parts Upload-Concat: "", "partial" or "final" with its IDs
\*   complete      Upload-Complete is ?1
Request(method, draft, id, chunk, length, uploadOffset, uploadLength, deferLength, concat, parts, complete) ==
    [method |-> method, draft |-> draft, id |-> id, chunk |-> chunk,
     length |-> length, uploadOffset |-> uploadOffset,
     uploadLength |-> uploadLength, deferLength |-> deferLength,
     concat |-> concat, parts |-> parts, complete |-> complete]

NoRequest == Request("", FALSE, 0, FALSE, 0, -1, -1, "", "", <<>>, FALSE)

\* The locals of a handler invocation.
\*   info     the FileInfo the handler works on (a copy, not the store's)
\*   id       the upload the request is about
\*   held, nLock, nUnlock   the lock variable, Lock and Unlock calls made
\*   hOffset  resp.Header["Upload-Offset"], -1 when not set
\*   hLocation  resp.Header["Location"] is set
\*   err      the error pending in writeChunk
\*   storeErr the error upload.WriteChunk returned
\*   hookErr  the error PreUploadCreateCallback returned
\*   fin      who called finishUploadIfComplete
\*   status, rerr, roffset  the response sent (status 0: none yet)
\*   rcode, rbody, rlocation  the response sent: the code of its error, its
\*            body is not empty, it has a Location header
\*   rvia     the function that sent the response: sendError or sendResp
\*   ops      the mutating store operations this request invoked
\*   touched, dirty  history for the interleaving of store operations
NoLoc ==
    [info |-> ZeroInfo, id |-> 0, held |-> FALSE, nLock |-> 0, nUnlock |-> 0,
     maxSize |-> 0, offset |-> 0, bytesWritten |-> 0, hOffset |-> -1,
     err |-> "", storeErr |-> "", hookErr |-> "", fin |-> "", status |-> 0,
     rerr |-> "", roffset |-> -1, hLocation |-> FALSE,
     rcode |-> "", rbody |-> FALSE, rlocation |-> FALSE, rvia |-> "",
     ops |-> {}, touched |-> FALSE, dirty |-> FALSE]

\* The cancellable context of a request and its body reader.
\*   cause     the cause given to cancel, "" while not cancelled
\*   body      c.Body: "nil", "open" or "closed" (CloseWithError was called)
\*   bodyErr   c.Body.HasError()
\*   bytesRead c.Body.BytesRead()
\*   watchdog  the goroutine of newContext still waits on Done
\*   seen      history: c.Body as the watchdog found it, "" before it ran
NoCtx == [cause |-> "", body |-> "nil", bodyErr |-> "", bytesRead |-> 0,
          watchdog |-> TRUE, seen |-> ""]

NoEmitter == [active |-> FALSE, id |-> 0, orig |-> 0, prev |-> 0, sent |-> FALSE]

NoEvent == [kind |-> "", id |-> 0]

NoEvents == [created |-> FALSE, progress |-> FALSE, completed |-> 0,
             terminated |-> FALSE, early |-> FALSE, late |-> FALSE]

\* An HTTP request as the Middleware reads it.
\*   method        r.Method as the client sent it
\*   override      X-HTTP-Method-Override, "" when missing
\*   origin        Origin, "" when missing
\*   tusResumable  Tus-Resumable, "" when missing
\*   draft         Upload-Draft-Interop-Version is the current version
HttpRequest(method, override, origin, tusResumable, draft) ==
    [method |-> method, override |-> override, origin |-> origin,
     tusResumable |-> tusResumable, draft |-> draft]

\* The Middleware's run for a request.
\*   stage   "idle" (no request), "new", "routed" (h.ServeHTTP runs),
\*           "responded", "returned"
\*   r       the request
\*   method  r.Method as the Middleware leaves it
\*   header  w.Header(): the response headers set, as <<name, value>>
\*   status, err   the response written (status 0: none yet)
\*   routed  h.ServeHTTP was called
NoMiddleware ==
    [stage |-> "idle", r |-> HttpRequest("", "", "", "", FALSE), method |-> "",
     header |-> {}, status |-> 0, err |-> "", routed |-> FALSE]

\* The contexts of a request.
\*   requestDone  r.Context() is done
\*   cause        the cause given to cancelHandling, "" while not called
\*   awaited      the goroutine of NewDelayedContext got past <-parent.Done()
\*   since        time since the cancellable context is done, up to MaxDelay
\*   elapsed      time since the goroutine started its timer, up to MaxDelay
\*   done         the delayed context is done
NoDelayed ==
    [requestDone |-> FALSE, cause |-> "", awaited |-> FALSE, since |-> 0,
     elapsed |-> 0, done |-> FALSE]

\* The metadata of an upload and its Upload-Metadata header.
\*   stage     "idle", "map" (a map to serialize), "header" (a header to
\*             parse), "parsed"
\*   meta      the map given to SerializeMetadataHeader
\*   elements  the elements of the header a client sent
\*   header    the header, a string of bytes
\*   parsed    the map ParseMetadataHeader returned
NoMetadata ==
    [stage |-> "idle", meta |-> <<>>, elements |-> <<>>, header |-> <<>>,
     parsed |-> <<>>]

\* A request as the preamble of a handler reads it, and the composers its
\* handler used. A composer is named by the bucket of its store; "default"
\* is the composer given to NewUnroutedHandler.
\*   stage     "idle", "selected" (past the preamble), "locked" (past
\*             lockUpload), "loaded" (past Core.GetUpload)
\*   bucket    the bucket-name header, "" when missing
\*   lockedIn  the composer whose Locker made the lock
\*   loadedIn  the composer whose Core returned the upload
NoBucketRequest ==
    [stage |-> "idle", bucket |-> "", lockedIn |-> "", loadedIn |-> ""]

\* handler.composer and the requests being served.
NoBuckets ==
    [composer |-> "default", r |-> [p \in Procs |-> NoBucketRequest]]

\* ----------------------------------------------------------- configuration
\* config.Config as read by the handlers; MaxSize 0 means no limit.
Config(maxSize, created, progress, complete, terminated, draft, preCreate, preFinish) ==
    [MaxSize |-> maxSize, NotifyCreatedUploads |-> created,
     NotifyUploadProgress |-> progress, NotifyCompleteUploads |-> complete,
     NotifyTerminatedUploads |-> terminated,
     EnableExperimentalProtocol |-> draft,
     PreUploadCreateCallback |-> preCreate,
     PreFinishResponseCallback |-> preFinish,
     Cors |-> [Disable |-> FALSE, AllowCredentials |-> FALSE],
     GracefulRequestCompletionTimeout |-> 0]

\* models.StoreComposer: the capability flags.
Composer(locker, terminater, concater, deferrer) ==
    [UsesLocker |-> locker, UsesTerminater |-> terminater,
     UsesConcater |-> concater, UsesLengthDeferrer |-> deferrer]

\* The handlers that are checked, as <<config, composer, clients>>; every
\* store has a locker.
\*   transfer  creation, transfer and termination under concurrent requests
\*   notify    the same with every notification channel enabled and a
\*             PreUploadCreateCallback hook
\*   concat    the concatenation extension, with progress notifications and
\*             a store that cannot terminate uploads
\*   deferred  the creation-defer-length extension and the draft protocol
\*   limited   the same with a MaxSize and a PreUploadCreateCallback hook
Configurations ==
    {<<Config(0, FALSE, FALSE, FALSE, FALSE, FALSE, FALSE, FALSE),
       Composer(TRUE, TRUE, FALSE, FALSE), 2>>,
     <<Config(0, TRUE, TRUE, TRUE, TRUE, FALSE, TRUE, FALSE),
       Composer(TRUE, TRUE, FALSE, FALSE), 1>>,
     <<Config(0, FALSE, TRUE, FALSE, FALSE, FALSE, FALSE, FALSE),
       Composer(TRUE, FALSE, TRUE, FALSE), 1>>,
     <<Config(0, FALSE, FALSE, FALSE, FALSE, TRUE, FALSE, FALSE),
       Composer(TRUE, FALSE, FALSE, TRUE), 1>>,
     <<Config(MaxLen, FALSE, FALSE, FALSE, FALSE, TRUE, TRUE, FALSE),
       Composer(TRUE, FALSE, FALSE, TRUE), 1>>}

\* ------------------------------------------------------------ pure helpers
\* validateNewUploadLengthHeaders with the test for both headers first.
validateBothHeadersFirst(uploadLengthHeader, uploadDeferLengthHeader) ==
    IF uploadLengthHeader # -1 /\ uploadDeferLengthHeader # ""
      THEN <<0, FALSE, "ErrUploadLengthAndUploadDeferLength">>
    ELSE IF uploadDeferLengthHeader = "1" /\ ~composer.UsesLengthDeferrer
      THEN <<0, FALSE, "ErrNotImplemented">>
    ELSE IF uploadDeferLengthHeader = "1" THEN <<0, TRUE, "">>
    ELSE IF uploadLengthHeader < 0
      THEN <<uploadLengthHeader, FALSE, "ErrInvalidUploadLength">>
    ELSE <<uploadLengthHeader, FALSE, "">>

\* validateNewUploadLengthHeaders: <<size, deferred, err>>.
validateNewUploadLengthHeaders(uploadLengthHeader, uploadDeferLengthHeader) ==
    LET haveBothLengthHeaders == uploadLengthHeader # -1 /\ uploadDeferLengthHeader # ""
        haveInvalidDeferHeader == uploadDeferLengthHeader # "" /\ uploadDeferLengthHeader # "1"
        lengthIsDeferred == uploadDeferLengthHeader = "1"
    IN  IF lengthIsDeferred /\ ~composer.UsesLengthDeferrer
          THEN <<0, FALSE, "ErrNotImplemented">>
        ELSE IF haveBothLengthHeaders
          THEN <<0, FALSE, "ErrUploadLengthAndUploadDeferLength">>
        ELSE IF haveInvalidDeferHeader
          THEN <<0, FALSE, "ErrInvalidUploadDeferLength">>
        ELSE IF lengthIsDeferred
          THEN <<0, TRUE, "">>
        ELSE IF uploadLengthHeader < 0
          THEN <<uploadLengthHeader, FALSE, "ErrInvalidUploadLength">>
        ELSE <<uploadLengthHeader, FALSE, "">>

\* parseConcat on the parsed header: <<isPartial, isFinal, ids, err>>.
parseConcat(concat, parts) ==
    IF concat = "" THEN <<FALSE, FALSE, <<>>, "">>
    ELSE IF concat = "partial" THEN <<TRUE, FALSE, <<>>, "">>
    ELSE IF Len(parts) = 0 THEN <<FALSE, FALSE, <<>>, "ErrInvalidConcat">>
    ELSE <<FALSE, TRUE, parts, "">>

\* A store that still finds an upload after its termination.
ExistsOnce(id) == store[id].state # "none"

\* Whether the store still has the upload (GetUpload succeeds).
Exists(id) == store[id].state = "live"

\* An upload that is never taken to be complete.
NeverComplete(info) == FALSE

\* Whether an upload is complete: the size is known and reached.
IsComplete(info) == ~info.SizeIsDeferred /\ info.Offset = info.Size

\* The test of sizeOfUploads without the comparison of offset and size.
NotFinishedByLength(info) == info.SizeIsDeferred

\* The completeness test sizeOfUploads makes on each referenced upload.
NotFinished(info) == info.SizeIsDeferred \/ info.Offset # info.Size

\* sizeOfUploads: <<size, err>>, reading each referenced upload in turn.
RECURSIVE sizeOfUploads(_)
sizeOfUploads(ids) ==
    IF Len(ids) = 0 THEN <<0, "">>
    ELSE LET id == Head(ids)
             rest == sizeOfUploads(Tail(ids))
         IN  IF ~Exists(id) THEN <<0, "ErrNotFound">>
             ELSE IF NotFinished(store[id].info) THEN <<0, "ErrUploadNotFinished">>
             ELSE IF rest[2] # "" THEN rest
             ELSE <<store[id].info.Size + rest[1], "">>

\* The bytes ConcatUploads puts into a final upload: the content of the parts.
RECURSIVE ContentOf(_)
ContentOf(ids) ==
    IF Len(ids) = 0 THEN 0
    ELSE store[Head(ids)].info.Offset + ContentOf(Tail(ids))

\* isResumableUploadDraftRequest.
isResumableUploadDraftRequest(r) == config.EnableExperimentalProtocol /\ r.draft

\* A request that changes an upload under the lock: PATCH, DELETE and a POST
\* that carries a body (creation-with-upload, every draft POST).
Mutating(p) ==
    \/ rq[p].method \in {"PATCH", "DELETE"}
    \/ rq[p].method = "POST" /\ (rq[p].chunk \/ isResumableUploadDraftRequest(rq[p]))

\* -------------------------------------------------------------------- Init
Init ==
    /\ \E c \in Configurations : config = c[1] /\ composer = c[2] /\ clients = c[3]
    /\ store = [i \in IDs |-> NoUpload]
    /\ locks = [i \in IDs |-> NoProc]
    /\ pc = [p \in Procs |-> "idle"]
    /\ rq = [p \in Procs |-> NoRequest]
    /\ loc = [p \in Procs |-> NoLoc]
    /\ ctx = [p \in Procs |-> NoCtx]
    /\ emitter = [p \in Procs |-> NoEmitter]
    /\ sending = [p \in Procs |-> NoEvent]
    /\ events = [i \in IDs |-> NoEvents]
    /\ hist = [written |-> [i \in IDs |-> 0], interleaved |-> FALSE]
    /\ alloc = [nreq |-> 0, nextId |-> 1, faults |-> 0]
    /\ mw = NoMiddleware
    /\ delayed = NoDelayed
    /\ metadata = NoMetadata
    /\ buckets = NoBuckets

\* -------------------------------------------------------- common transitions
\* A goroutine whose handler has returned is freed before anything else
\* happens, unless its progress emitter has still to end.
Settled == \A q \in Procs : pc[q] = "done" => emitter[q].active

\* A handler that goes on without waiting for its event to be received.
ReadyWhileSending(p, at) == pc[p] = at /\ Settled

\* A handler step is taken at position `at` unless the handler is blocked
\* sending on a notification channel.
Ready(p, at) == pc[p] = at /\ sending[p] = NoEvent /\ Settled

\* The goroutines serving a request.
InFlight == {q \in Procs : pc[q] # "idle"}

\* The uploads a request works on: its own and the parts it concatenates.
UploadsOf(r, id) == {id} \cup {r.parts[k] : k \in 1..Len(r.parts)}

\* The upload a new request is about: for a POST the one it will create.
TargetOf(r) == IF r.method = "POST" THEN alloc.nextId ELSE r.id

\* A new request is accepted by an idle goroutine: the first idle one, the
\* goroutines being interchangeable, while the clients have requests left.
\* Requests overlap only when they work on a common upload: requests on
\* unrelated uploads share no state, so that their steps commute and every
\* interleaving of them equals a serial run.
Idle(p) ==
    /\ pc[p] = "idle"
    /\ Settled
    /\ \A q \in Procs : q < p => pc[q] # "idle"
    /\ alloc.nreq < MaxReq
    /\ Cardinality(InFlight) < clients

\* The request r is accepted by goroutine p.
Accept(p, r) ==
    /\ \A q \in InFlight :
          UploadsOf(r, TargetOf(r)) \cap UploadsOf(rq[q], loc[q].id) # {}
    /\ rq' = [rq EXCEPT ![p] = r]

\* An Unlock that runs only when the handler returns without an error.
unlockOnSuccess(l, err) == l.held /\ err = ""

\* defer lock.Unlock(): registered right after lockUpload succeeded, it runs
\* when the handler returns, whatever the error it returns with.
deferredUnlock(l, err) == l.held

\* sendResp / sendError: the response of a handler that ends with error err
\* ("" for none) and success status ok; an error response carries the error's
\* own headers, a success response the handler's resp.
Responded(l, method, err, ok) ==
    [l EXCEPT !.status = IF err = "" THEN ok ELSE detailedErr(err).status,
              !.rerr = err,
              !.roffset = IF err = "" THEN l.hOffset ELSE -1,
              !.rcode = IF err = "" THEN "" ELSE detailedErr(err).code,
              !.rbody = err # "" /\ method # "HEAD",
              !.rlocation = err = "" /\ l.hLocation,
              !.rvia = IF err = "" THEN "sendResp" ELSE "sendError",
              !.held = IF deferredUnlock(l, err) THEN FALSE ELSE @,
              !.nUnlock = IF deferredUnlock(l, err) THEN @ + 1 ELSE @]

\* The locals of all requests after p's become l and p made a store operation
\* on upload id: history of which requests' operations fall between p's.
Mark(p, l, id) ==
    [q \in Procs |->
        IF q = p THEN [l EXCEPT !.touched = TRUE]
        ELSE IF /\ Mutating(p) /\ Mutating(q)
                /\ pc[q] \notin {"idle", "done"}
                /\ loc[q].touched /\ loc[q].id = id
             THEN [loc[q] EXCEPT !.dirty = TRUE]
             ELSE loc[q]]

\* The locals of all requests after p's become l, without a store operation.
Plain(p, l) == [loc EXCEPT ![p] = l]

\* History: p makes a store operation on its upload after another mutating
\* request made one since p's previous operation on it.
Observed(p) ==
    [hist EXCEPT !.interleaved = @ \/ (Mutating(p) /\ loc[p].touched /\ loc[p].dirty)]

\* The locker once p's locals are l: p holds the lock of its upload while
\* l.held, and no other lock.
Locks(p, l) ==
    [i \in IDs |-> IF i = l.id /\ l.held THEN p
                   ELSE IF locks[i] = p THEN NoProc
                   ELSE locks[i]]

\* The handler moves on to position `next` with locals L.
Goto(p, L, next) ==
    /\ pc' = [pc EXCEPT ![p] = next]
    /\ loc' = L
    /\ locks' = Locks(p, L[p])

\* The handler sends its response and returns; the deferred Unlock runs.
Return(p, L, err, ok) ==
    /\ pc' = [pc EXCEPT ![p] = "done"]
    /\ LET method == IF pc[p] = "idle" THEN rq'[p].method ELSE rq[p].method
       IN  /\ loc' = [L EXCEPT ![p] = Responded(L[p], method, err, ok)]
           /\ locks' = Locks(p, Responded(L[p], method, err, ok))

\* A handler that sends its event whatever the flag of the channel.
EmitAlways(p, flag, kind, id) ==
    sending' = [sending EXCEPT ![p] = [kind |-> kind, id |-> id]]

\* A handler blocks sending an event on a channel whose flag is set.
Emit(p, flag, kind, id) ==
    sending' = IF flag THEN [sending EXCEPT ![p] = [kind |-> kind, id |-> id]]
               ELSE sending

\* The last step of a handler before its response: it sends an event if the
\* flag is set, and responds once the event was received.
End(p, L, err, ok, flag, kind, id) ==
    IF flag
      THEN /\ Emit(p, TRUE, kind, id)
           /\ Goto(p, [L EXCEPT ![p].err = err], "respond")
      ELSE /\ Return(p, L, err, ok)
           /\ UNCHANGED sending

\* Whether a store operation fails: it does when it is not possible (the
\* upload is gone), and it can while the run has failures left.
Fails(possible) ==
    IF ~possible THEN {TRUE}
    ELSE IF alloc.faults < MaxFaults THEN BOOLEAN
    ELSE {FALSE}

\* The failures so far after an operation that was possible failed or not.
Faults(possible, failed) ==
    IF possible /\ failed THEN alloc.faults + 1 ELSE alloc.faults

\* The status of a successful response.
OkStatus(r) ==
    CASE r.method = "POST" -> 201
      [] r.method = "HEAD" -> IF isResumableUploadDraftRequest(r) THEN 204 ELSE 200
      [] r.method = "GET" -> 200
      [] OTHER -> 204

\* What no handler changes.
Static == <<config, composer, clients, mw, delayed, metadata, buckets>>

\* ----------------------------------------------------------------- requests
\* Uploads a client can address: every ID the store has handed out.
Targets == {i \in IDs : store[i].state # "none"}

\* Upload-Concat: final lists one or two uploads.
PartLists == {<<i>> : i \in Targets} \cup {<<i, j>> : i \in Targets, j \in Targets}

\* Content-Length of a request with a body: unknown or 0..MaxLen.
BodyLengths == {-1} \cup Lens

\* A length beyond the limit of a handler that has one.
Oversize == IF config.MaxSize > 0 THEN {config.MaxSize + 1} ELSE {}

\* The Upload-Length / Upload-Defer-Length pairs of a creation request: a
\* length, no header, the deferral, both headers, and an Upload-Defer-Length
\* that is not 1 without and with a length.
LengthHeaders ==
    {<<n, "">> : n \in Lens \cup Oversize} \cup {<<-1, "">>}
    \cup {<<-1, "1">>, <<1, "1">>, <<-1, "0">>, <<1, "0">>}

\* Upload-Concat of a creation request that is not a final upload.
ConcatHeaders == IF composer.UsesConcater THEN {"", "partial"} ELSE {""}

\* Creation requests with an Upload-Concat header sent to a handler that
\* does not advertise the concatenation extension: a partial upload with
\* its length, and a final upload.
UnsupportedConcatRequests ==
    IF composer.UsesConcater THEN {}
    ELSE {Request("POST", FALSE, 0, FALSE, 0, -1, n, "", "partial", <<>>, FALSE) :
             n \in Lens}
         \cup
         {Request("POST", FALSE, 0, FALSE, 0, -1, -1, "", "final", ps, FALSE) :
             ps \in PartLists \cup {<<>>}}

\* The requests clients send: those of the extensions the handler
\* advertises in Tus-Extension, of the draft protocol when it is enabled,
\* and requests of an extension the handler does not advertise.
PostRequests ==
    {Request("POST", FALSE, 0, TRUE, n, -1, h[1], h[2], c, <<>>, FALSE) :
        n \in Lens, h \in LengthHeaders, c \in ConcatHeaders}
    \cup
    {Request("POST", FALSE, 0, FALSE, 0, -1, h[1], h[2], c, <<>>, FALSE) :
        h \in LengthHeaders, c \in ConcatHeaders}
    \cup
    (IF composer.UsesConcater
       THEN {Request("POST", FALSE, 0, chunk, 0, -1, -1, "", "final", ps, FALSE) :
                chunk \in BOOLEAN, ps \in PartLists \cup {<<>>}}
       ELSE {})
    \cup UnsupportedConcatRequests

PostV2Requests ==
    IF config.EnableExperimentalProtocol
      THEN {Request("POST", TRUE, 0, FALSE, n, -1, -1, "", "", <<>>, complete) :
                n \in BodyLengths \cup Oversize, complete \in BOOLEAN}
      ELSE {}

\* Uploads a client addresses with the draft protocol.
DraftTargets == IF config.EnableExperimentalProtocol THEN Targets ELSE {}

\* Upload-Length of a PATCH: missing, malformed or a length with a store
\* that defers lengths, and one length with a store that does not.
PatchLengths ==
    {-1} \cup (IF composer.UsesLengthDeferrer THEN {-2} \cup Lens \cup Oversize
                                               ELSE {MaxLen})

\* PATCH requests: tus-v1 requests, tus-v1 requests that carry the
\* Upload-Complete: ?1 of the draft protocol (to a handler whose uploads can
\* have a deferred length), draft requests, and a request without the
\* Content-Type of a chunk and one without a valid Upload-Offset.
PatchRequests ==
    {Request("PATCH", FALSE, id, TRUE, n, off, ul, "", "", <<>>, FALSE) :
        id \in Targets, n \in BodyLengths, off \in Lens, ul \in PatchLengths}
    \cup
    (IF composer.UsesLengthDeferrer
       THEN {Request("PATCH", FALSE, id, TRUE, n, off, -1, "", "", <<>>, TRUE) :
                id \in Targets, n \in BodyLengths, off \in Lens}
       ELSE {})
    \cup
    {Request("PATCH", TRUE, id, TRUE, n, off, -1, "", "", <<>>, complete) :
        id \in DraftTargets, n \in BodyLengths, off \in Lens, complete \in BOOLEAN}
    \cup
    {Request("PATCH", FALSE, id, FALSE, 0, 0, -1, "", "", <<>>, FALSE) : id \in Targets}
    \cup
    {Request("PATCH", FALSE, id, TRUE, 0, -1, -1, "", "", <<>>, FALSE) : id \in Targets}

ReadRequests(method) ==
    {Request(method, FALSE, id, FALSE, 0, -1, -1, "", "", <<>>, FALSE) : id \in Targets}

DeleteRequests == ReadRequests("DELETE")

\* ----------------------------------------------------------------- lockUpload
\* The lock variable after lockUpload succeeded.
Locked(l) == [l EXCEPT !.held = TRUE, !.nLock = @ + 1]

\* if handler.composer.UsesLocker { lockUpload ... } as the first thing a
\* handler does with upload id: without a locker it goes on, with a free lock
\* it takes it and goes on, with a held lock it waits.
EnterLock(p, id) ==
    LET l == [NoLoc EXCEPT !.id = id]
    IN  IF ~composer.UsesLocker THEN Goto(p, Plain(p, l), "load")
        ELSE IF locks[id] = NoProc THEN Goto(p, Plain(p, Locked(l)), "load")
        ELSE Goto(p, Plain(p, l), "lock")

\* The position of a handler once it holds the lock.
AfterLock(r) == IF r.method = "POST" THEN "wcStart" ELSE "load"

\* lockUpload succeeds for a handler that waited or, in a POST, comes to
\* lock the upload it created: the lock is free and is taken.
lockUpload(p) ==
    /\ Ready(p, "lock")
    /\ locks[loc[p].id] = NoProc
    /\ Goto(p, Plain(p, IF composer.UsesLocker THEN Locked(loc[p]) ELSE loc[p]),
            AfterLock(rq[p]))
    /\ UNCHANGED <<Static, store, rq, ctx, emitter, sending, events, hist, alloc>>

\* The locker, asked for a lock that is held, calls the releaseLock callback
\* the holder passed to Lock: the holder's context is cancelled with cause
\* ErrUploadInterrupted (a cancelled context keeps its first cause). When
\* the holder's transfer is over the watchdog finds nothing to do.
releaseLock(p) ==
    /\ Ready(p, "lock")
    /\ locks[loc[p].id] # NoProc
    /\ LET q == locks[loc[p].id]
       IN  /\ ctx[q].cause = ""
           /\ ctx' = [ctx EXCEPT ![q].cause = "ErrUploadInterrupted",
                                 ![q].watchdog = ctx[q].body # "closed",
                                 ![q].seen = IF ctx[q].body = "closed" THEN "closed" ELSE @]
    /\ UNCHANGED <<Static, store, locks, pc, rq, loc, emitter, sending, events,
                   hist, alloc>>

\* lockUpload fails: the lock was not released within AcquireLockTimeout.
lockTimeout(p) ==
    /\ Ready(p, "lock")
    /\ locks[loc[p].id] # NoProc
    /\ \E err \in {"ErrFileLocked", "ErrLockTimeout"} :
          Return(p, loc, err, OkStatus(rq[p]))
    /\ UNCHANGED <<Static, store, rq, ctx, emitter, sending, events, hist, alloc>>

\* ------------------------------------------------------------------- PostFile
\* The position of PostFile / PostFileV2 after the upload was created.
AfterCreate(r, info) ==
    IF isResumableUploadDraftRequest(r) THEN "lock"
    ELSE IF info.IsFinal THEN "concat"
    ELSE IF r.chunk THEN "lock"
    ELSE IF ~info.SizeIsDeferred /\ info.Size = 0 THEN "finish"
    ELSE "respond"

\* What PreUploadCreateCallback returns for a creation: no error, the
\* rejection, or an error that is not one of the protocol's.
HookErrors ==
    IF config.PreUploadCreateCallback
      THEN {"", "ErrUploadRejectedByServer", "ErrHook"}
      ELSE {""}

\* A handler that creates the upload whatever the hook returned.
createsUploadAnyway(hookErr) == TRUE

\* The handler goes on to Core.NewUpload unless the hook returned an error.
createsUpload(hookErr) == hookErr = ""

\* The creation of the upload in PostFile and PostFileV2: the
\* PreUploadCreateCallback hook, Core.NewUpload, upload.GetInfo, the
\* CreatedUploads notification.
NewUpload(p, r, info) ==
    \E hookErr \in HookErrors, failed \in Fails(TRUE) :
        LET id == alloc.nextId
            l == [NoLoc EXCEPT !.id = id, !.info = info, !.fin = "post0",
                               !.hookErr = hookErr, !.hLocation = TRUE,
                               !.ops = {"NewUpload"}, !.touched = TRUE]
            next == AfterCreate(r, info)
        IN  IF ~createsUpload(hookErr)
              THEN /\ Return(p, Plain(p, [NoLoc EXCEPT !.hookErr = hookErr]),
                             hookErr, OkStatus(r))
                   /\ UNCHANGED <<store, sending>>
                   /\ alloc' = [alloc EXCEPT !.nreq = @ + 1]
            ELSE IF failed
              THEN /\ Return(p, Plain(p, [NoLoc EXCEPT !.hookErr = hookErr,
                                                       !.ops = {"NewUpload"}]),
                             "ErrStore", OkStatus(r))
                   /\ UNCHANGED <<store, sending>>
                   /\ alloc' = [alloc EXCEPT !.nreq = @ + 1, !.faults = @ + 1]
            ELSE /\ store' = [store EXCEPT ![id] =
                                [state |-> "live", info |-> info, finished |-> 0]]
                 /\ alloc' = [alloc EXCEPT !.nreq = @ + 1, !.nextId = id + 1]
                 /\ IF next = "respond"
                      THEN End(p, Plain(p, l), "", OkStatus(r),
                               config.NotifyCreatedUploads, "created", id)
                      ELSE /\ Emit(p, config.NotifyCreatedUploads, "created", id)
                           /\ Goto(p, Plain(p, l), next)

\* PostFile up to the creation of the upload: the header checks, then the
\* creation.
PostFile(p) ==
    /\ Idle(p)
    /\ \E r \in PostRequests :
        /\ ~isResumableUploadDraftRequest(r)
        /\ Accept(p, r)
        /\ LET concatHeader == IF composer.UsesConcater THEN r.concat ELSE ""
               pcat == parseConcat(concatHeader, r.parts)
               isPartial == pcat[1]
               isFinal == pcat[2]
               sou == sizeOfUploads(pcat[3])
               val == validateNewUploadLengthHeaders(r.uploadLength, r.deferLength)
               size == IF isFinal THEN sou[1] ELSE val[1]
               sizeIsDeferred == IF isFinal THEN FALSE ELSE val[2]
               err == IF pcat[4] # "" THEN pcat[4]
                      ELSE IF isFinal /\ r.chunk THEN "ErrModifyFinal"
                      ELSE IF isFinal THEN sou[2]
                      ELSE val[3]
               err2 == IF err # "" THEN err
                       ELSE IF config.MaxSize > 0 /\ size > config.MaxSize
                         THEN "ErrMaxSizeExceeded"
                       ELSE ""
           IN  IF err2 # ""
                 THEN /\ Return(p, Plain(p, NoLoc), err2, OkStatus(r))
                      /\ alloc' = [alloc EXCEPT !.nreq = @ + 1]
                      /\ UNCHANGED <<store, sending>>
                 ELSE NewUpload(p, r, FileInfo(size, sizeIsDeferred, 0, isPartial, isFinal))
        /\ UNCHANGED <<Static, ctx, emitter, events, hist>>

\* PostFileV2 up to the creation of the upload.
PostFileV2(p) ==
    /\ Idle(p)
    /\ \E r \in PostV2Requests :
        /\ isResumableUploadDraftRequest(r)
        /\ Accept(p, r)
        /\ LET known == r.complete /\ r.length # -1
           IN  IF ~known /\ ~composer.UsesLengthDeferrer
                 THEN /\ Return(p, Plain(p, NoLoc), "ErrNotImplemented", OkStatus(r))
                      /\ alloc' = [alloc EXCEPT !.nreq = @ + 1]
                      /\ UNCHANGED <<store, sending>>
                 ELSE NewUpload(p, r, FileInfo(IF known THEN r.length ELSE 0, ~known,
                                               0, FALSE, FALSE))
        /\ UNCHANGED <<Static, ctx, emitter, events, hist>>

\* ConcatUploads for a final upload, the CompleteUploads notification, and
\* for an empty final upload the way on to finishUploadIfComplete.
ConcatUploads(p) ==
    /\ Ready(p, "concat")
    /\ LET id == loc[p].id
           parts == rq[p].parts
           size == loc[p].info.Size
           l == [loc[p] EXCEPT !.ops = @ \cup {"ConcatUploads"}]
           done == [l EXCEPT !.info.Offset = size]
           possible == Exists(id) /\ \A k \in 1..Len(parts) : Exists(parts[k])
       IN  \E failed \in Fails(possible) :
           /\ alloc' = [alloc EXCEPT !.faults = Faults(possible, failed)]
           /\ IF failed
               THEN /\ Return(p, Plain(p, l), "ErrStore", OkStatus(rq[p]))
                    /\ UNCHANGED <<store, sending, hist>>
               ELSE /\ store' = [store EXCEPT ![id].info.Offset = ContentOf(parts),
                                              ![id].finished = @ + 1]
                    /\ hist' = [hist EXCEPT !.written[id] = @ + ContentOf(parts)]
                    /\ IF size = 0
                         THEN /\ Emit(p, config.NotifyCompleteUploads, "completed", id)
                              /\ Goto(p, Plain(p, done), "finish")
                         ELSE End(p, Plain(p, done), "", OkStatus(rq[p]),
                                  config.NotifyCompleteUploads, "completed", id)
    /\ UNCHANGED <<Static, rq, ctx, emitter, events>>

\* ------------------------------------------------------------------ HeadFile
\* HeadFile up to the lock.
HeadFile(p) ==
    /\ Idle(p)
    /\ \E r \in ReadRequests("HEAD") :
        /\ Accept(p, r)
        /\ EnterLock(p, r.id)
        /\ alloc' = [alloc EXCEPT !.nreq = @ + 1]
        /\ UNCHANGED <<Static, store, ctx, emitter, sending, events, hist>>

\* Upload-Offset with the size of the upload in place of its offset.
headOffsetOfSize(info) == info.Size

\* The Upload-Offset header of HeadFile's response.
headOffset(info) == info.Offset

\* HeadFile under the lock: GetUpload, GetInfo, the response.
HeadLoad(p) ==
    /\ Ready(p, "load")
    /\ rq[p].method = "HEAD"
    /\ LET id == loc[p].id
           info == store[id].info
           l == [loc[p] EXCEPT !.info = info, !.hOffset = headOffset(info)]
       IN  IF ~Exists(id)
             THEN Return(p, loc, "ErrNotFound", OkStatus(rq[p])) /\ UNCHANGED hist
             ELSE Return(p, Mark(p, l, id), "", OkStatus(rq[p])) /\ hist' = Observed(p)
    /\ UNCHANGED <<Static, store, rq, ctx, emitter, sending, events, alloc>>

\* ------------------------------------------------------------------- GetFile
\* GetFile up to the lock.
GetFile(p) ==
    /\ Idle(p)
    /\ \E r \in ReadRequests("GET") :
        /\ Accept(p, r)
        /\ EnterLock(p, r.id)
        /\ alloc' = [alloc EXCEPT !.nreq = @ + 1]
        /\ UNCHANGED <<Static, store, ctx, emitter, sending, events, hist>>

\* GetFile under the lock: GetUpload, GetInfo, 204 for an empty upload,
\* otherwise the content is streamed.
GetLoad(p) ==
    /\ Ready(p, "load")
    /\ rq[p].method = "GET"
    /\ LET id == loc[p].id
           info == store[id].info
           l == [loc[p] EXCEPT !.info = info]
       IN  IF ~Exists(id)
             THEN Return(p, loc, "ErrNotFound", OkStatus(rq[p])) /\ UNCHANGED hist
             ELSE /\ Return(p, Mark(p, l, id), "",
                            IF info.Offset = 0 THEN 204 ELSE OkStatus(rq[p]))
                  /\ hist' = Observed(p)
    /\ UNCHANGED <<Static, store, rq, ctx, emitter, sending, events, alloc>>

\* ------------------------------------------------------------------- DelFile
\* DelFile up to the lock.
DelFile(p) ==
    /\ Idle(p)
    /\ \E r \in DeleteRequests :
        /\ Accept(p, r)
        /\ IF ~composer.UsesTerminater
             THEN Return(p, Plain(p, NoLoc), "ErrNotImplemented", OkStatus(r))
             ELSE EnterLock(p, r.id)
        /\ alloc' = [alloc EXCEPT !.nreq = @ + 1]
        /\ UNCHANGED <<Static, store, ctx, emitter, sending, events, hist>>

\* DelFile under the lock: GetUpload, and GetInfo when the termination is
\* to be announced.
DelLoad(p) ==
    /\ Ready(p, "load")
    /\ rq[p].method = "DELETE"
    /\ LET id == loc[p].id
           l == [loc[p] EXCEPT !.info = store[id].info]
       IN  IF ~Exists(id)
             THEN Return(p, loc, "ErrNotFound", OkStatus(rq[p])) /\ UNCHANGED hist
           ELSE IF config.NotifyTerminatedUploads
             THEN Goto(p, Mark(p, l, id), "terminate") /\ hist' = Observed(p)
           ELSE Goto(p, loc, "terminate") /\ UNCHANGED hist
    /\ UNCHANGED <<Static, store, rq, ctx, emitter, sending, events, alloc>>

\* terminateUpload: Terminate on the store and the TerminatedUploads
\* notification. DelFile reports a failure; writeChunk, which terminates an
\* upload stopped by the server, only logs it and goes on.
terminateUpload(p) ==
    /\ Ready(p, "terminate")
    /\ LET id == loc[p].id
           l == [loc[p] EXCEPT !.ops = @ \cup {"Terminate"}]
           inDelete == rq[p].method = "DELETE"
       IN  \E failed \in Fails(Exists(id)) :
             /\ hist' = Observed(p)
             /\ alloc' = [alloc EXCEPT !.faults = Faults(Exists(id), failed)]
             /\ IF failed
                  THEN /\ UNCHANGED <<store, sending>>
                       /\ IF inDelete
                            THEN Return(p, Mark(p, l, id), "ErrStore", OkStatus(rq[p]))
                            ELSE Goto(p, Mark(p, l, id), "finish")
                  ELSE /\ store' = [store EXCEPT ![id].state = "gone"]
                       /\ IF inDelete
                            THEN End(p, Mark(p, l, id), "", OkStatus(rq[p]),
                                     config.NotifyTerminatedUploads, "terminated", id)
                            ELSE /\ Emit(p, config.NotifyTerminatedUploads, "terminated", id)
                                 /\ Goto(p, Mark(p, l, id), "finish")
    /\ UNCHANGED <<Static, rq, ctx, emitter, events>>

\* ----------------------------------------------------------------- PatchFile
\* PatchFile up to the lock: Content-Type and Upload-Offset.
PatchFile(p) ==
    /\ Idle(p)
    /\ \E r \in PatchRequests :
        /\ Accept(p, r)
        /\ LET isTusV1 == ~isResumableUploadDraftRequest(r)
           IN  IF isTusV1 /\ ~r.chunk
                 THEN Return(p, Plain(p, NoLoc), "ErrInvalidContentType", OkStatus(r))
               ELSE IF r.uploadOffset < 0
                 THEN Return(p, Plain(p, NoLoc), "ErrInvalidOffset", OkStatus(r))
               ELSE EnterLock(p, r.id)
        /\ alloc' = [alloc EXCEPT !.nreq = @ + 1]
        /\ UNCHANGED <<Static, store, ctx, emitter, sending, events, hist>>

\* The Upload-Length check of PatchFile without the test of the capability.
PatchLengthErrorOfUpload(r, info) ==
    IF ~info.SizeIsDeferred THEN "ErrInvalidUploadLength"
    ELSE IF \/ r.uploadLength < 0
            \/ r.uploadLength < info.Offset
            \/ (config.MaxSize > 0 /\ r.uploadLength > config.MaxSize)
      THEN "ErrInvalidUploadLength"
    ELSE ""

\* The error PatchFile finds in the Upload-Length header of a request on an
\* upload with the given info, "" when the length can be declared.
PatchLengthError(r, info) ==
    IF ~composer.UsesLengthDeferrer THEN "ErrNotImplemented"
    ELSE IF ~info.SizeIsDeferred THEN "ErrInvalidUploadLength"
    ELSE IF \/ r.uploadLength < 0
            \/ r.uploadLength < info.Offset
            \/ (config.MaxSize > 0 /\ r.uploadLength > config.MaxSize)
      THEN "ErrInvalidUploadLength"
    ELSE ""

\* The check of PatchFile without the comparison of the offsets.
PatchCheckWithoutOffset(r, info) ==
    IF info.IsFinal THEN "ErrModifyFinal" ELSE ""

\* The check of PatchFile with the offsets compared first.
PatchCheckOffsetFirst(r, info) ==
    IF r.uploadOffset # info.Offset THEN "ErrMismatchOffset"
    ELSE IF info.IsFinal THEN "ErrModifyFinal"
    ELSE ""

\* The check PatchFile makes on the upload before it changes anything:
\* the error it rejects the request with, "" when the request goes on.
PatchCheck(r, info) ==
    IF info.IsFinal THEN "ErrModifyFinal"
    ELSE IF r.uploadOffset # info.Offset THEN "ErrMismatchOffset"
    ELSE ""

\* PatchFile under the lock: GetUpload, GetInfo, the checks on the upload.
PatchLoad(p) ==
    /\ Ready(p, "load")
    /\ rq[p].method = "PATCH"
    /\ LET id == loc[p].id
           r == rq[p]
           info == store[id].info
           l == [loc[p] EXCEPT !.info = info]
       IN  IF ~Exists(id)
             THEN Return(p, loc, "ErrNotFound", OkStatus(r)) /\ UNCHANGED hist
           ELSE /\ hist' = Observed(p)
                /\ IF PatchCheck(r, info) # ""
                     THEN Return(p, Mark(p, l, id), PatchCheck(r, info), OkStatus(r))
                   ELSE IF IsComplete(info)
                     THEN Return(p, Mark(p, [l EXCEPT !.hOffset = r.uploadOffset], id),
                                 "", OkStatus(r))
                   ELSE IF r.uploadLength = -1
                     THEN Goto(p, Mark(p, l, id), "wcStart")
                   ELSE IF PatchLengthError(r, info) # ""
                     THEN Return(p, Mark(p, l, id), PatchLengthError(r, info), OkStatus(r))
                   ELSE Goto(p, Mark(p, l, id), "declare")
    /\ UNCHANGED <<Static, store, rq, ctx, emitter, sending, events, alloc>>

\* DeclareLength with the Upload-Length of a PATCH.
DeclareLength(p) ==
    /\ Ready(p, "declare")
    /\ LET id == loc[p].id
           uploadLength == rq[p].uploadLength
           l == [loc[p] EXCEPT !.ops = @ \cup {"DeclareLength"}]
       IN  \E failed \in Fails(Exists(id)) :
             /\ hist' = Observed(p)
             /\ alloc' = [alloc EXCEPT !.faults = Faults(Exists(id), failed)]
             /\ IF failed
                  THEN /\ Return(p, Mark(p, l, id), "ErrStore", OkStatus(rq[p]))
                       /\ UNCHANGED store
                  ELSE /\ store' = [store EXCEPT ![id].info.Size = uploadLength,
                                                 ![id].info.SizeIsDeferred = FALSE]
                       /\ Goto(p, Mark(p, [l EXCEPT !.info.Size = uploadLength,
                                                    !.info.SizeIsDeferred = FALSE], id),
                               "wcStart")
    /\ UNCHANGED <<Static, rq, ctx, emitter, sending, events>>

\* ---------------------------------------------------------------- writeChunk
\* Stands for math.MaxInt64: more than any body or offset within the bounds.
MaxInt64 == MaxLen * (MaxReq + 2)

\* The most bytes a client sends in one request body.
MaxBody == MaxLen + 1

\* maxSize of writeChunk: the cap given to the body reader.
maxSize(info, length) ==
    LET bound == IF info.SizeIsDeferred
                   THEN IF config.MaxSize > 0
                          THEN config.MaxSize - info.Offset
                          ELSE MaxInt64
                   ELSE info.Size - info.Offset
    IN  IF length > 0 THEN length ELSE bound

\* The eager test of writeChunk: the request does not fit into the upload.
sizeExceeded(info, length) ==
    ~info.SizeIsDeferred /\ info.Offset + length > info.Size

\* newOffset without the offset the transfer started from.
newOffsetOfChunk(offset, bytesWritten) == bytesWritten

\* newOffset of writeChunk.
newOffset(offset, bytesWritten) == offset + bytesWritten

\* writeChunk up to the call of WriteChunk: the eager size test, the body
\* reader, the stop-upload callback, the progress emitter.
writeChunk(p) ==
    /\ Ready(p, "wcStart")
    /\ LET r == rq[p]
           info == loc[p].info
           l == [loc[p] EXCEPT !.maxSize = maxSize(info, r.length),
                               !.offset = info.Offset, !.fin = "wc"]
       IN  IF sizeExceeded(info, r.length)
             THEN /\ Return(p, loc, "ErrSizeExceeded", OkStatus(r))
                  /\ UNCHANGED <<ctx, emitter>>
             ELSE /\ Goto(p, Plain(p, l), "writing")
                  /\ ctx' = [ctx EXCEPT ![p].body = "open"]
                  /\ emitter' = IF config.NotifyUploadProgress
                                  THEN [emitter EXCEPT ![p] =
                                          [active |-> TRUE, id |-> loc[p].id,
                                           orig |-> info.Offset, prev |-> 0,
                                           sent |-> FALSE]]
                                  ELSE emitter
    /\ UNCHANGED <<Static, store, rq, sending, events, hist, alloc>>

\* Whether the body reader lets the store read n bytes in all: at most
\* maxSize, at most what the client sends.
Readable(p, n) ==
    /\ n <= loc[p].maxSize
    /\ n <= MaxBody
    /\ rq[p].length < 0 \/ n <= rq[p].length

\* The store reads one more byte of the body while the progress emitter
\* watches the count of bytes read.
ReadBody(p) ==
    /\ pc[p] = "writing"
    /\ Settled
    /\ emitter[p].active
    /\ ctx[p].body = "open"
    /\ Readable(p, ctx[p].bytesRead + 1)
    /\ ctx' = [ctx EXCEPT ![p].bytesRead = @ + 1]
    /\ UNCHANGED <<Static, store, locks, pc, rq, loc, emitter, sending, events,
                   hist, alloc>>

\* c.Body.BytesRead() when WriteChunk returns: what the emitter saw being
\* read, or with no emitter watching any count the body reader lets through.
BytesRead(p) ==
    IF emitter[p].active THEN {ctx[p].bytesRead}
    ELSE {n \in ctx[p].bytesRead..MaxBody : n = ctx[p].bytesRead \/ Readable(p, n)}

\* How the body can end for the store that has read `read` bytes of it:
\* c.Body.HasError() after the transfer. "" is the end of the body,
\* ErrSizeExceeded more data than the cap, ErrReadTimeout a client that
\* stopped sending; a body closed by the watchdog ends with the cause it was
\* closed with.
BodyEnds(p, read, storeErr) ==
    IF ctx[p].body = "closed" THEN {ctx[p].bodyErr}
    ELSE {e \in {"", "ErrSizeExceeded", "ErrReadTimeout"} :
            \/ e = "" /\ (rq[p].length < 0 \/ read = rq[p].length)
            \/ e = "ErrSizeExceeded" /\ rq[p].length < 0 /\ read >= loc[p].maxSize
            \/ e = "ErrReadTimeout" /\ (rq[p].length < 0 \/ read < rq[p].length)
                                    /\ (storeErr \/ alloc.faults < MaxFaults)}

\* The error of a chunk transfer with the body reader's error first.
transferErrorOfBody(err, bodyErr) == IF bodyErr # "" THEN bodyErr ELSE err

\* The error of a chunk transfer: the error WriteChunk returned, and the
\* error of the body reader only if WriteChunk returned none.
transferError(err, bodyErr) == IF err = "" THEN bodyErr ELSE err

\* terminateUpload of writeChunk for any error of the body reader.
stoppedByAnyError(bodyErr) == bodyErr # ""

\* terminateUpload of writeChunk: the body reader was closed because a hook
\* stopped the upload.
stoppedByServer(bodyErr) == bodyErr = "ErrUploadStoppedByServer"

\* upload.WriteChunk returns, and writeChunk goes on to the new offset: the
\* store has appended bytesWritten bytes, all that was read unless it failed.
WriteChunk(p) ==
    /\ Ready(p, "writing")
    /\ LET id == loc[p].id
       IN  \E read \in BytesRead(p) :
           \E storeErr \in Fails(Exists(id)) :
           \E bodyErr \in BodyEnds(p, read, storeErr)
                          \cup (IF storeErr /\ ctx[p].body = "open" THEN {""} ELSE {}) :
           \E bytesWritten \in (IF ~storeErr THEN {read}
                                ELSE IF Exists(id) THEN 0..read ELSE {0}) :
             LET werr == IF storeErr THEN "ErrStore" ELSE ""
                 err == transferError(werr, bodyErr)
                 stopped == stoppedByServer(bodyErr)
                 new == newOffset(loc[p].offset, bytesWritten)
                 l == [loc[p] EXCEPT !.ops = @ \cup {"WriteChunk"},
                                     !.bytesWritten = bytesWritten,
                                     !.err = err,
                                     !.storeErr = werr,
                                     !.hOffset = new,
                                     !.info.Offset = new]
             IN  /\ store' = [store EXCEPT ![id].info.Offset = @ + bytesWritten]
                 /\ alloc' = [alloc EXCEPT !.faults =
                                IF (storeErr /\ Exists(id)) \/ bodyErr = "ErrReadTimeout"
                                  THEN @ + 1 ELSE @]
                 /\ hist' = [Observed(p) EXCEPT !.written[id] = @ + bytesWritten]
                 /\ ctx' = [ctx EXCEPT ![p].body = "closed", ![p].bodyErr = bodyErr,
                                       ![p].bytesRead = read,
                                       ![p].watchdog = @ /\ ctx[p].cause = "",
                                       ![p].seen = IF ctx[p].watchdog /\ ctx[p].cause # ""
                                                     THEN "closed" ELSE @]
                 /\ Goto(p, Mark(p, l, id),
                         IF stopped /\ composer.UsesTerminater
                           THEN "terminate" ELSE "finish")
    /\ UNCHANGED <<Static, rq, emitter, sending, events>>

\* The goroutine of newContext: once the cancellable context is done with
\* one of the handler's own causes, it closes the body reader, if there is
\* one, with that cause, and ends.
Watchdog(p) ==
    /\ pc[p] \notin {"idle", "done"}
    /\ Settled
    /\ ctx[p].watchdog
    /\ ctx[p].cause # ""
    /\ ctx' = [ctx EXCEPT ![p].watchdog = FALSE,
                          ![p].seen = ctx[p].body,
                          ![p].body = IF @ = "open" THEN "closed" ELSE @,
                          ![p].bodyErr = IF ctx[p].body = "open" THEN ctx[p].cause ELSE @]
    /\ UNCHANGED <<Static, store, locks, pc, rq, loc, emitter, sending, events,
                   hist, alloc>>

\* A hook that received a progress event of this request calls the
\* StopUpload callback writeChunk installed: the context is cancelled with
\* cause ErrUploadStoppedByServer.
StopUpload(p) ==
    /\ pc[p] = "writing"
    /\ Settled
    /\ emitter[p].sent
    /\ ctx[p].cause = ""
    /\ ctx' = [ctx EXCEPT ![p].cause = "ErrUploadStoppedByServer"]
    /\ UNCHANGED <<Static, store, locks, pc, rq, loc, emitter, sending, events,
                   hist, alloc>>

\* --------------------------------------------------- finishUploadIfComplete
\* Whether PatchFile / PostFileV2 declare the length after the transfer.
declaresAfterTransfer(r, info) ==
    /\ r.method = "PATCH" \/ isResumableUploadDraftRequest(r)
    /\ r.complete
    /\ info.SizeIsDeferred

\* What writeChunk returns with the result of the completion first.
returnedFinishError(err, finishErr) == IF finishErr # "" THEN finishErr ELSE err

\* What writeChunk returns after finishUploadIfComplete: its own earlier
\* error if it has one, else the result of the completion.
returnedError(err, finishErr) == IF err # "" THEN err ELSE finishErr

\* finishUploadIfComplete and the return to its caller: writeChunk returns
\* its own earlier error if it has one, else the result of the completion.
finishUploadIfComplete(p) ==
    /\ Ready(p, "finish")
    /\ LET id == loc[p].id
           info == loc[p].info
           complete == IsComplete(info)
       IN  \E failed \in (IF complete THEN Fails(Exists(id)) ELSE {FALSE}),
              hookFailed \in (IF complete /\ config.PreFinishResponseCallback
                                THEN BOOLEAN ELSE {FALSE}) :
             LET finishErr == IF failed THEN "ErrStore"
                              ELSE IF hookFailed THEN "ErrHook" ELSE ""
                 err == returnedError(IF loc[p].fin = "wc" THEN loc[p].err ELSE "",
                                      finishErr)
                 l == [loc[p] EXCEPT !.err = err,
                                     !.ops = IF complete THEN @ \cup {"FinishUpload"} ELSE @]
                 L == IF complete THEN Mark(p, l, id) ELSE Plain(p, l)
                 flag == complete /\ finishErr = "" /\ config.NotifyCompleteUploads
             IN  /\ store' = IF complete /\ ~failed
                               THEN [store EXCEPT ![id].finished = @ + 1] ELSE store
                 /\ hist' = IF complete THEN Observed(p) ELSE hist
                 /\ alloc' = [alloc EXCEPT !.faults = Faults(Exists(id), failed)]
                 /\ IF err = "" /\ loc[p].fin = "wc" /\ declaresAfterTransfer(rq[p], info)
                      THEN /\ Emit(p, flag, "completed", id)
                           /\ Goto(p, L, "completeDeferred")
                      ELSE End(p, L, err, OkStatus(rq[p]), flag, "completed", id)
    /\ UNCHANGED <<Static, rq, ctx, emitter, events>>

\* PatchFile / PostFileV2 after a transfer with Upload-Complete: ?1 on an
\* upload whose length is still deferred: GetInfo, DeclareLength(Offset).
CompleteDeferred(p) ==
    /\ Ready(p, "completeDeferred")
    /\ LET id == loc[p].id
           info == store[id].info
           uploadLength == info.Offset
           l == [loc[p] EXCEPT !.ops = @ \cup {"DeclareLength"}, !.fin = "complete"]
           declared == [info EXCEPT !.Size = uploadLength, !.SizeIsDeferred = FALSE]
       IN  IF ~Exists(id)
             THEN Return(p, loc, "ErrNotFound", OkStatus(rq[p])) /\ UNCHANGED <<store, hist, alloc>>
             ELSE \E failed \in Fails(TRUE) :
                    /\ hist' = Observed(p)
                    /\ alloc' = [alloc EXCEPT !.faults = Faults(TRUE, failed)]
                    /\ IF failed
                         THEN /\ Return(p, Mark(p, l, id), "ErrStore", OkStatus(rq[p]))
                              /\ UNCHANGED store
                         ELSE /\ store' = [store EXCEPT ![id].info = declared]
                              /\ Goto(p, Mark(p, [l EXCEPT !.info = declared], id), "finish")
    /\ UNCHANGED <<Static, rq, ctx, emitter, sending, events>>

\* The end of a handler that sent an event: sendError with the pending
\* error, or sendResp.
Respond(p) ==
    /\ Ready(p, "respond")
    /\ Return(p, loc, loc[p].err, OkStatus(rq[p]))
    /\ UNCHANGED <<Static, store, rq, ctx, emitter, sending, events, hist, alloc>>

\* The goroutine is free for the next request once the request's context,
\* and with it the progress emitter, has ended.
Recycle(p) ==
    /\ pc[p] = "done"
    /\ ~emitter[p].active
    /\ pc' = [pc EXCEPT ![p] = "idle"]
    /\ rq' = [rq EXCEPT ![p] = NoRequest]
    /\ loc' = [loc EXCEPT ![p] = NoLoc]
    /\ ctx' = [ctx EXCEPT ![p] = NoCtx]
    /\ emitter' = [emitter EXCEPT ![p] = NoEmitter]
    /\ UNCHANGED <<Static, store, locks, sending, events, hist, alloc>>

\* ------------------------------------------------------------- notifications
\* A consumer receives the event a handler is sending: the handler goes on.
Consume(p) ==
    /\ sending[p] # NoEvent
    /\ Settled
    /\ LET id == sending[p].id
           kind == sending[p].kind
       IN  events' = [events EXCEPT
              ![id].created = @ \/ kind = "created",
              ![id].completed = IF kind = "completed" /\ @ < 2 THEN @ + 1 ELSE @,
              ![id].terminated = @ \/ kind = "terminated"]
    /\ sending' = [sending EXCEPT ![p] = NoEvent]
    /\ UNCHANGED <<Static, store, locks, pc, rq, loc, ctx, emitter, hist, alloc>>

\* emitProgress of sendProgressMessages: an UploadProgress event with the
\* offset read so far, unless it is the offset of the previous event; the
\* emitter then goes on (active) or ends.
emitProgress(p, active) ==
    LET id == emitter[p].id
        offset == emitter[p].orig + ctx[p].bytesRead
    IN  IF offset # emitter[p].prev
          THEN /\ events' = [events EXCEPT
                     ![id].progress = TRUE,
                     ![id].early = @ \/ ~events[id].created,
                     ![id].late = @ \/ events[id].completed > 0 \/ events[id].terminated]
               /\ emitter' = [emitter EXCEPT ![p].prev = offset, ![p].sent = TRUE,
                                             ![p].active = active]
          ELSE /\ UNCHANGED events
               /\ emitter' = [emitter EXCEPT ![p].active = active]

\* The emitter's timer fires (UploadProgressInterval).
ProgressTick(p) ==
    /\ emitter[p].active
    /\ Settled
    /\ emitter[p].orig + ctx[p].bytesRead # emitter[p].prev
    /\ emitProgress(p, TRUE)
    /\ UNCHANGED <<Static, store, locks, pc, rq, loc, ctx, sending, hist, alloc>>

\* The emitter sees c.Done(): the context handed to the stores is done some
\* time after the request was cancelled or its handler returned. It emits
\* once more and ends.
ProgressDone(p) ==
    /\ emitter[p].active
    /\ Settled
    /\ ctx[p].cause # "" \/ pc[p] = "done"
    /\ emitProgress(p, FALSE)
    /\ UNCHANGED <<Static, store, locks, pc, rq, loc, ctx, sending, hist, alloc>>

\* ---------------------------------------------------------------------- Next
Next ==
    \E p \in Procs :
        \/ PostFile(p)
        \/ PostFileV2(p)
        \/ ConcatUploads(p)
        \/ lockUpload(p)
        \/ releaseLock(p)
        \/ lockTimeout(p)
        \/ HeadFile(p)
        \/ HeadLoad(p)
        \/ GetFile(p)
        \/ GetLoad(p)
        \/ DelFile(p)
        \/ DelLoad(p)
        \/ terminateUpload(p)
        \/ PatchFile(p)
        \/ PatchLoad(p)
        \/ DeclareLength(p)
        \/ writeChunk(p)
        \/ ReadBody(p)
        \/ WriteChunk(p)
        \/ Watchdog(p)
        \/ StopUpload(p)
        \/ finishUploadIfComplete(p)
        \/ CompleteDeferred(p)
        \/ Respond(p)
        \/ Recycle(p)
        \/ Consume(p)
        \/ ProgressTick(p)
        \/ ProgressDone(p)

Spec == Init /\ [][Next]_vars

\* ---------------------------------------------------------------- Middleware
\* The handlers the Middleware is checked with, as <<config, composer>>:
\* with and without CORS, the draft protocol and a MaxSize.
MiddlewareConfig(size, draft, corsDisable, allowCredentials) ==
    [Config(size, FALSE, FALSE, FALSE, FALSE, draft, FALSE, FALSE)
        EXCEPT !.Cors = [Disable |-> corsDisable,
                         AllowCredentials |-> allowCredentials]]

MiddlewareConfigurations ==
    {<<MiddlewareConfig(0, FALSE, FALSE, FALSE), Composer(TRUE, TRUE, FALSE, FALSE)>>,
     <<MiddlewareConfig(MaxLen, TRUE, FALSE, TRUE), Composer(TRUE, FALSE, TRUE, TRUE)>>,
     <<MiddlewareConfig(0, TRUE, TRUE, FALSE), Composer(TRUE, FALSE, FALSE, TRUE)>>,
     <<MiddlewareConfig(MaxLen, FALSE, TRUE, FALSE), Composer(FALSE, TRUE, TRUE, FALSE)>>}

\* Origins that match config.Cors.AllowOrigin.
AllowedOrigins == {"https://a.example"}

\* The requests the Middleware is checked with.
HttpMethods == {"GET", "HEAD", "OPTIONS", "POST", "PATCH", "DELETE"}

HttpRequests ==
    {HttpRequest(m, o, origin, t, d) :
        m \in HttpMethods, o \in {"", "PATCH", "GET"},
        origin \in {"", "https://a.example", "https://b.example"},
        t \in {"1.0.0", "", "0.2.2"}, d \in BOOLEAN}

\* The states in which the Middleware is about to serve a request.
MiddlewareInit ==
    /\ \E c \in MiddlewareConfigurations, t \in 0..MaxDelay :
          /\ config = [c[1] EXCEPT !.GracefulRequestCompletionTimeout = t]
          /\ composer = c[2]
    /\ clients = 1
    /\ store = [i \in IDs |-> NoUpload]
    /\ locks = [i \in IDs |-> NoProc]
    /\ pc = [p \in Procs |-> "idle"]
    /\ rq = [p \in Procs |-> NoRequest]
    /\ loc = [p \in Procs |-> NoLoc]
    /\ ctx = [p \in Procs |-> NoCtx]
    /\ emitter = [p \in Procs |-> NoEmitter]
    /\ sending = [p \in Procs |-> NoEvent]
    /\ events = [i \in IDs |-> NoEvents]
    /\ hist = [written |-> [i \in IDs |-> 0], interleaved |-> FALSE]
    /\ alloc = [nreq |-> 0, nextId |-> 1, faults |-> 0]
    /\ \E r \in HttpRequests : mw = [NoMiddleware EXCEPT !.stage = "new", !.r = r]
    /\ delayed = NoDelayed
    /\ metadata = NoMetadata
    /\ buckets = NoBuckets

\* What the Middleware and the contexts leave alone.
Handlers ==
    <<config, composer, clients, store, locks, pc, rq, loc, ctx, emitter,
      sending, events, hist, alloc, metadata, buckets>>

\* handler.extensions, as NewUnroutedHandler builds it.
extensions ==
    <<"creation", "creation-with-upload">>
    \o (IF composer.UsesTerminater THEN <<"termination">> ELSE <<>>)
    \o (IF composer.UsesConcater THEN <<"concatenation">> ELSE <<>>)
    \o (IF composer.UsesLengthDeferrer THEN <<"creation-defer-length">> ELSE <<>>)

\* A Middleware that takes the override of any request.
overriddenMethod(method, override) ==
    IF override # "" THEN override ELSE method

\* r.Method after the X-HTTP-Method-Override of the request was applied.
effectiveMethod(method, override) ==
    IF method = "POST" /\ override # "" THEN override ELSE method

\* The CORS part of the Middleware applies to the request.
corsApplies(r) == ~config.Cors.Disable /\ r.origin # ""

\* cors.AllowOrigin.MatchString(origin)
originIsAllowed(origin) == origin \in AllowedOrigins

\* The CORS headers of a response to a request of the given method.
corsHeaders(method, origin) ==
    {<<"Access-Control-Allow-Origin", origin>>, <<"Vary", "Origin">>}
    \cup (IF config.Cors.AllowCredentials
            THEN {<<"Access-Control-Allow-Credentials", "true">>} ELSE {})
    \cup (IF method = "OPTIONS"
            THEN {<<"Access-Control-Allow-Methods", "cors.AllowMethods">>,
                  <<"Access-Control-Allow-Headers", "cors.AllowHeaders">>,
                  <<"Access-Control-Max-Age", "cors.MaxAge">>}
            ELSE {<<"Access-Control-Expose-Headers", "cors.ExposeHeaders">>})

\* The headers of the OPTIONS response.
optionsHeaders ==
    (IF config.MaxSize > 0 THEN {<<"Tus-Max-Size", config.MaxSize>>} ELSE {})
    \cup {<<"Tus-Version", "1.0.0">>, <<"Tus-Extension", extensions>>}

\* A Middleware without a test of the version.
versionUnchecked(method, tusResumable, isTusV1) == FALSE

\* The test of the version the client sent.
versionRejected(method, tusResumable, isTusV1) ==
    method # "GET" /\ method # "HEAD" /\ tusResumable # "1.0.0" /\ isTusV1

\* The Middleware writes a response and returns without routing.
Answer(m, header, status, err) ==
    mw' = [mw EXCEPT !.stage = "responded", !.method = m, !.header = header,
                     !.status = status, !.err = err]

\* The Middleware up to h.ServeHTTP: newContext, the method override, CORS,
\* the protocol headers, the OPTIONS response, the version test.
Middleware ==
    /\ mw.stage = "new"
    /\ delayed' = NoDelayed
    /\ LET r == mw.r
           m == effectiveMethod(r.method, r.override)
           isTusV1 == ~isResumableUploadDraftRequest(r)
           cors == IF corsApplies(r) THEN corsHeaders(m, r.origin) ELSE {}
           header == cors
                     \cup (IF isTusV1 THEN {<<"Tus-Resumable", "1.0.0">>} ELSE {})
                     \cup {<<"X-Content-Type-Options", "nosniff">>}
       IN  IF corsApplies(r) /\ ~originIsAllowed(r.origin)
             THEN Answer(m, {}, ErrStatus("ErrOriginNotAllowed"), "ErrOriginNotAllowed")
           ELSE IF m = "OPTIONS"
             THEN Answer(m, header \cup optionsHeaders, 200, "")
           ELSE IF versionRejected(m, r.tusResumable, isTusV1)
             THEN Answer(m, header, ErrStatus("ErrUnsupportedVersion"),
                         "ErrUnsupportedVersion")
           ELSE mw' = [mw EXCEPT !.stage = "routed", !.method = m,
                                 !.header = header, !.routed = TRUE]
    /\ UNCHANGED Handlers

\* h.ServeHTTP: the protocol handler the request was routed to writes its
\* response, with or without an error, on top of the headers set so far.
ServeHTTP ==
    /\ mw.stage = "routed"
    /\ \E status \in {204, 404} :
          mw' = [mw EXCEPT !.stage = "responded", !.status = status]
    /\ UNCHANGED <<Handlers, delayed>>

\* The Middleware returns: net/http cancels the context of the request.
ServeReturns ==
    /\ mw.stage = "responded"
    /\ mw' = [mw EXCEPT !.stage = "returned"]
    /\ delayed' = [delayed EXCEPT !.requestDone = TRUE]
    /\ UNCHANGED Handlers

NextMiddleware ==
    \/ Middleware
    \/ ServeHTTP
    \/ ServeReturns

\* The Middleware serving one request, over all requests.
SpecMiddleware == MiddlewareInit /\ [][NextMiddleware]_vars

\* ------------------------------------------------------------------ contexts
\* The cancellable context is done: its parent, the context of the request,
\* is done, or cancelHandling was called.
cancellableDone(d) == d.requestDone \/ d.cause # ""

\* The connection closes or the client cancels the request while it is
\* served.
Disconnect ==
    /\ mw.stage = "routed"
    /\ ~delayed.requestDone
    /\ delayed' = [delayed EXCEPT !.requestDone = TRUE]
    /\ UNCHANGED <<Handlers, mw>>

\* c.cancel(cause) while the request is served: another request asks for
\* the lock, the upload is stopped, or the server shuts down.
CancelHandling ==
    /\ mw.stage = "routed"
    /\ delayed.cause = ""
    /\ \E cause \in {"ErrUploadInterrupted", "ErrUploadStoppedByServer",
                      "ErrServerShutdown"} :
          delayed' = [delayed EXCEPT !.cause = cause]
    /\ UNCHANGED <<Handlers, mw>>

\* The goroutine of NewDelayedContext receives from parent.Done() and
\* starts its timer.
AwaitParent ==
    /\ mw.stage \notin {"idle", "new"}
    /\ ~delayed.awaited
    /\ cancellableDone(delayed)
    /\ delayed' = [delayed EXCEPT !.awaited = TRUE]
    /\ UNCHANGED <<Handlers, mw>>

\* Time passes, for as long as a context waits for it.
Tick ==
    /\ cancellableDone(delayed)
    /\ ~delayed.done
    /\ delayed.since < MaxDelay \/ (delayed.awaited /\ delayed.elapsed < MaxDelay)
    /\ delayed' = [delayed EXCEPT
          !.since = IF @ < MaxDelay THEN @ + 1 ELSE @,
          !.elapsed = IF delayed.awaited /\ @ < MaxDelay THEN @ + 1 ELSE @]
    /\ UNCHANGED <<Handlers, mw>>

\* A timer that has fired whatever the time elapsed.
timerFiredAtOnce(elapsed, delay) == TRUE

\* <-time.After(delay) returns.
timerFired(elapsed, delay) == elapsed >= delay

\* The goroutine of NewDelayedContext gets past its timer and cancels the
\* delayed context.
DelayedCancel ==
    /\ delayed.awaited
    /\ ~delayed.done
    /\ timerFired(delayed.elapsed, config.GracefulRequestCompletionTimeout)
    /\ delayed' = [delayed EXCEPT !.done = TRUE]
    /\ UNCHANGED <<Handlers, mw>>

\* The contexts are followed for requests without the optional headers:
\* no context depends on the headers of its request.
DelayedContextInit ==
    /\ MiddlewareInit
    /\ mw.r.override = ""
    /\ mw.r.origin = ""
    /\ mw.r.tusResumable = "1.0.0"
    /\ ~mw.r.draft

NextDelayedContext ==
    \/ Middleware
    \/ ServeHTTP
    \/ ServeReturns
    \/ Disconnect
    \/ CancelHandling
    \/ AwaitParent
    \/ Tick
    \/ DelayedCancel

\* The contexts of one request, with the goroutine of NewDelayedContext
\* scheduled and time passing.
SpecDelayedContext ==
    /\ DelayedContextInit
    /\ [][NextDelayedContext]_vars
    /\ WF_vars(AwaitParent)
    /\ WF_vars(Tick)
    /\ WF_vars(DelayedCancel)

\* ------------------------------------------------------------------ metadata
\* Strings are sequences of bytes. The bytes that are named: tab, space,
\* '!', ',', '=' (the padding of base64), 'a' and 'b'.
Char == [tab |-> 9, space |-> 32, bang |-> 33, comma |-> 44, pad |-> 61,
         a |-> 97, b |-> 98]

\* unicode.IsSpace on single bytes: what strings.TrimSpace removes.
WhiteSpace == {9, 10, 11, 12, 13, 32}

RECURSIVE TrimLeft(_)
TrimLeft(s) ==
    IF s # <<>> /\ Head(s) \in WhiteSpace THEN TrimLeft(Tail(s)) ELSE s

RECURSIVE TrimRight(_)
TrimRight(s) ==
    IF s # <<>> /\ s[Len(s)] \in WhiteSpace
      THEN TrimRight(SubSeq(s, 1, Len(s) - 1))
      ELSE s

\* strings.TrimSpace
TrimSpace(s) == TrimRight(TrimLeft(s))

\* strings.Split(s, sep) for a separator of one byte.
RECURSIVE Split(_, _)
Split(s, sep) ==
    IF \A i \in 1..Len(s) : s[i] # sep THEN <<s>>
    ELSE LET i == CHOOSE i \in 1..Len(s) :
                      s[i] = sep /\ \A j \in 1..(i - 1) : s[j] # sep
         IN  <<SubSeq(s, 1, i - 1)>> \o Split(SubSeq(s, i + 1, Len(s)), sep)

\* The alphabet of base64.StdEncoding: A-Z, a-z, 0-9, '+', '/'.
Digit(v) ==
    IF v < 26 THEN 65 + v
    ELSE IF v < 52 THEN 97 + (v - 26)
    ELSE IF v < 62 THEN 48 + (v - 52)
    ELSE IF v = 62 THEN 43
    ELSE 47

\* The six bits a byte of the alphabet stands for, -1 for any other byte.
Value(c) ==
    IF \E v \in 0..63 : Digit(v) = c
      THEN CHOOSE v \in 0..63 : Digit(v) = c
      ELSE -1

\* An encoder that leaves out the padding, as base64.RawStdEncoding does.
RECURSIVE EncodeToStringRaw(_)
EncodeToStringRaw(src) ==
    IF src = <<>> THEN <<>>
    ELSE IF Len(src) = 1
      THEN <<Digit(src[1] \div 4), Digit((src[1] % 4) * 16)>>
    ELSE IF Len(src) = 2
      THEN <<Digit(src[1] \div 4),
             Digit((src[1] % 4) * 16 + src[2] \div 16),
             Digit((src[2] % 16) * 4)>>
    ELSE <<Digit(src[1] \div 4),
           Digit((src[1] % 4) * 16 + src[2] \div 16),
           Digit((src[2] % 16) * 4 + src[3] \div 64),
           Digit(src[3] % 64)>>
         \o EncodeToStringRaw(SubSeq(src, 4, Len(src)))

\* base64.StdEncoding.EncodeToString: three bytes become four digits, and
\* the last group is padded with '='.
RECURSIVE EncodeToString(_)
EncodeToString(src) ==
    IF src = <<>> THEN <<>>
    ELSE IF Len(src) = 1
      THEN <<Digit(src[1] \div 4), Digit((src[1] % 4) * 16), Char.pad, Char.pad>>
    ELSE IF Len(src) = 2
      THEN <<Digit(src[1] \div 4),
             Digit((src[1] % 4) * 16 + src[2] \div 16),
             Digit((src[2] % 16) * 4),
             Char.pad>>
    ELSE <<Digit(src[1] \div 4),
           Digit((src[1] % 4) * 16 + src[2] \div 16),
           Digit((src[2] % 16) * 4 + src[3] \div 64),
           Digit(src[3] % 64)>>
         \o EncodeToString(SubSeq(src, 4, Len(src)))

\* base64.StdEncoding.DecodeString: groups of four digits, padding only at
\* the end of the last group; err is set for any other string.
RECURSIVE DecodeString(_)
DecodeString(s) ==
    IF s = <<>> THEN [err |-> FALSE, dec |-> <<>>]
    ELSE IF Len(s) < 4 THEN [err |-> TRUE, dec |-> <<>>]
    ELSE LET v == [i \in 1..4 |-> Value(s[i])]
             last == Len(s) = 4
             n == IF \A i \in 1..4 : v[i] >= 0 THEN 3
                  ELSE IF last /\ (\A i \in 1..3 : v[i] >= 0) /\ s[4] = Char.pad THEN 2
                  ELSE IF /\ last /\ v[1] >= 0 /\ v[2] >= 0
                          /\ s[3] = Char.pad /\ s[4] = Char.pad THEN 1
                  ELSE 0
             b1 == v[1] * 4 + v[2] \div 16
             b2 == (v[2] % 16) * 16 + v[3] \div 4
             b3 == (v[3] % 4) * 64 + v[4]
             rest == DecodeString(SubSeq(s, 5, Len(s)))
         IN  IF n = 0 \/ rest.err THEN [err |-> TRUE, dec |-> <<>>]
             ELSE [err |-> FALSE,
                   dec |-> (CASE n = 1 -> <<b1>>
                              [] n = 2 -> <<b1, b2>>
                              [] n = 3 -> <<b1, b2, b3>>) \o rest.dec]

\* meta[key] = value on a Go map.
Put(meta, key, value) ==
    [k \in DOMAIN meta \cup {key} |-> IF k = key THEN value ELSE meta[k]]

\* A parser that takes an element whose value cannot be decoded as a key
\* without a value.
metaOfLenientElement(meta, element) ==
    LET parts == Split(TrimSpace(element), Char.space)
        key == parts[1]
    IN  IF Len(parts) > 2 THEN meta
        ELSE IF key = <<>> THEN meta
        ELSE IF Len(parts) = 2 /\ ~DecodeString(parts[2]).err
          THEN Put(meta, key, DecodeString(parts[2]).dec)
        ELSE Put(meta, key, <<>>)

\* The body of the loop of ParseMetadataHeader: the map after one element.
metaOfElement(meta, element) ==
    LET parts == Split(TrimSpace(element), Char.space)
        key == parts[1]
    IN  IF Len(parts) > 2 THEN meta
        ELSE IF key = <<>> THEN meta
        ELSE IF Len(parts) = 2
          THEN IF DecodeString(parts[2]).err THEN meta
               ELSE Put(meta, key, DecodeString(parts[2]).dec)
        ELSE Put(meta, key, <<>>)

RECURSIVE metaOfElements(_, _)
metaOfElements(meta, elements) ==
    IF elements = <<>> THEN meta
    ELSE metaOfElements(metaOfElement(meta, Head(elements)), Tail(elements))

ParseMetadataHeader(header) ==
    metaOfElements(<<>>, Split(header, Char.comma))

\* The header after the loop of SerializeMetadataHeader, which visits the
\* keys of the map in the given order.
RECURSIVE headerOfEntries(_, _)
headerOfEntries(meta, order) ==
    IF order = <<>> THEN <<>>
    ELSE Head(order) \o <<Char.space>> \o EncodeToString(meta[Head(order)])
         \o <<Char.comma>> \o headerOfEntries(meta, Tail(order))

SerializeMetadataHeader(meta, order) ==
    LET header == headerOfEntries(meta, order)
    IN  IF Len(header) > 0 THEN SubSeq(header, 1, Len(header) - 1) ELSE header

\* The orders in which a range loop can visit the keys of a map.
Orders(meta) ==
    {o \in [1..Cardinality(DOMAIN meta) -> DOMAIN meta] :
        \A k \in DOMAIN meta : \E i \in DOMAIN o : o[i] = k}

\* All strings of at most n bytes from the given set.
Strings(bytes, n) == UNION {[1..k -> bytes] : k \in 0..n}

\* The maps that are serialized: keys are not empty and hold neither a space
\* nor a comma; values are any bytes.
MetaKeys == Strings({Char.a, Char.tab}, MaxKeyLen) \ {<<>>}

MetaValues == Strings({Char.a, Char.comma}, MaxValueLen)

MetaMaps ==
    UNION {[D -> MetaValues] :
              D \in {D \in SUBSET MetaKeys : Cardinality(D) <= MaxEntries}}

\* The elements of the headers that are parsed:
\*   "a YQ=="    "b"          " a LA== "   "b YWE="
\*   "a b c"     "a  YQ=="    ""           " "
\*   "a Y!=="    "a YQ"
MetaElements ==
    {<<97, 32, 89, 81, 61, 61>>, <<98>>, <<32, 97, 32, 76, 65, 61, 61, 32>>,
     <<98, 32, 89, 87, 69, 61>>,
     <<97, 32, 98, 32, 99>>, <<97, 32, 32, 89, 81, 61, 61>>, <<>>, <<32>>,
     <<97, 32, 89, 33, 61, 61>>, <<97, 32, 89, 81>>}

\* strings.Join(elements, ",")
RECURSIVE Join(_)
Join(elements) ==
    IF elements = <<>> THEN <<>>
    ELSE IF Len(elements) = 1 THEN Head(elements)
    ELSE Head(elements) \o <<Char.comma>> \o Join(Tail(elements))

MetaHeaders == UNION {[1..k -> MetaElements] : k \in 1..MaxElements}

\* No request is being served.
NoRequests ==
    /\ config = Config(0, FALSE, FALSE, FALSE, FALSE, FALSE, FALSE, FALSE)
    /\ composer = Composer(TRUE, TRUE, FALSE, FALSE)
    /\ clients = 1
    /\ store = [i \in IDs |-> NoUpload]
    /\ locks = [i \in IDs |-> NoProc]
    /\ pc = [p \in Procs |-> "idle"]
    /\ rq = [p \in Procs |-> NoRequest]
    /\ loc = [p \in Procs |-> NoLoc]
    /\ ctx = [p \in Procs |-> NoCtx]
    /\ emitter = [p \in Procs |-> NoEmitter]
    /\ sending = [p \in Procs |-> NoEvent]
    /\ events = [i \in IDs |-> NoEvents]
    /\ hist = [written |-> [i \in IDs |-> 0], interleaved |-> FALSE]
    /\ alloc = [nreq |-> 0, nextId |-> 1, faults |-> 0]
    /\ mw = NoMiddleware
    /\ delayed = NoDelayed

\* What neither the metadata functions nor the preambles touch.
Serving ==
    <<config, composer, clients, store, locks, pc, rq, loc, ctx, emitter,
      sending, events, hist, alloc, mw, delayed>>

\* The inputs: a map to serialize and parse back, or the header of a client.
MetadataInit ==
    /\ NoRequests
    /\ buckets = NoBuckets
    /\ \/ \E m \in MetaMaps :
             metadata = [NoMetadata EXCEPT !.stage = "map", !.meta = m]
       \/ \E e \in MetaHeaders :
             metadata = [NoMetadata EXCEPT !.stage = "header", !.elements = e,
                                           !.header = Join(e)]

\* SerializeMetadataHeader on the map, in one of the orders of its keys.
Serialize ==
    /\ metadata.stage = "map"
    /\ \E o \in Orders(metadata.meta) :
          metadata' = [metadata EXCEPT !.stage = "header",
                          !.header = SerializeMetadataHeader(metadata.meta, o)]
    /\ UNCHANGED <<Serving, buckets>>

\* ParseMetadataHeader on the header.
Parse ==
    /\ metadata.stage = "header"
    /\ metadata' = [metadata EXCEPT !.stage = "parsed",
                       !.parsed = ParseMetadataHeader(metadata.header)]
    /\ UNCHANGED <<Serving, buckets>>

NextMetadata ==
    \/ Serialize
    \/ Parse

\* Serializing and parsing Upload-Metadata, over all inputs.
SpecMetadata == MetadataInit /\ [][NextMetadata]_vars

\* ------------------------------------------------------------------- buckets
\* The bucket-name headers of the requests.
BucketNames == {"", "bucket-a", "bucket-b"}

\* The composer the preamble of a handler leaves in handler.composer for a
\* request with the given bucket-name header: a new composer for the store
\* of that bucket, or the one that is there.
composerOfRequest(current, bucket) ==
    IF bucket # "" THEN bucket ELSE current

\* The preamble of PostFile, HeadFile, PatchFile, GetFile and DelFile: the
\* handler reads the bucket-name header and rebinds handler.composer.
SelectComposer(p) ==
    /\ buckets.r[p].stage = "idle"
    /\ \E b \in BucketNames :
          buckets' = [buckets EXCEPT
                         !.composer = composerOfRequest(@, b),
                         !.r[p] = [NoBucketRequest EXCEPT !.stage = "selected",
                                                          !.bucket = b]]
    /\ UNCHANGED <<Serving, metadata>>

\* lockUpload: handler.composer.Locker.NewLock(id), with handler.composer as
\* it is now.
NewLock(p) ==
    /\ buckets.r[p].stage = "selected"
    /\ buckets' = [buckets EXCEPT !.r[p].stage = "locked",
                                  !.r[p].lockedIn = buckets.composer]
    /\ UNCHANGED <<Serving, metadata>>

\* handler.composer.Core.GetUpload(c, id), with handler.composer as it is
\* now.
GetUpload(p) ==
    /\ buckets.r[p].stage = "locked"
    /\ buckets' = [buckets EXCEPT !.r[p].stage = "loaded",
                                  !.r[p].loadedIn = buckets.composer]
    /\ UNCHANGED <<Serving, metadata>>

\* The handler returns; its goroutine serves the next request.
HandlerReturns(p) ==
    /\ buckets.r[p].stage = "loaded"
    /\ buckets' = [buckets EXCEPT !.r[p] = NoBucketRequest]
    /\ UNCHANGED <<Serving, metadata>>

BucketsInit ==
    /\ NoRequests
    /\ metadata = NoMetadata
    /\ buckets = NoBuckets

NextBuckets ==
    \E p \in Procs :
        \/ SelectComposer(p)
        \/ NewLock(p)
        \/ GetUpload(p)
        \/ HandlerReturns(p)

\* Requests with and without bucket-name headers served concurrently by one
\* handler.
SpecBuckets == BucketsInit /\ [][NextBuckets]_vars

\* -------------------------------------------------------------------- claims
\* The upload of request p as the store holds it.
Stored(p) == store[loc[p].id].info

\* Request p of the given method has been answered.
Answered(p, method) == pc[p] = "done" /\ rq[p].method = method

\* PatchFile of p is about to check, under the lock, an upload that exists.
Checking(p) ==
    /\ pc[p] = "load"
    /\ rq[p].method = "PATCH"
    /\ Exists(loc[p].id)
    /\ pc'[p] # "load"

\* PatchFile of p rejects the request with error e and changes nothing.
Rejects(p, e) ==
    /\ pc'[p] = "done"
    /\ loc'[p].rerr = e
    /\ loc'[p].status = ErrStatus(e)
    /\ loc'[p].ops = {}
    /\ store' = store

\* C1: with a locking store the store operations of two mutating requests
\* on the same upload never interleave.
C1_NoInterleaving == composer.UsesLocker => ~hist.interleaved

\* C2: the stored offset of an upload never decreases, and a chunk transfer
\* ends at the offset it started from plus the bytes written, which are not
\* negative.
C2_OffsetNeverDecreases ==
    [][/\ \A i \in IDs : store[i].state = "live" =>
              store'[i].info.Offset >= store[i].info.Offset
       /\ \A p \in Procs : pc[p] = "writing" /\ pc'[p] # "writing" =>
              /\ loc'[p].bytesWritten >= 0
              /\ loc'[p].hOffset >= loc[p].offset
              /\ loc'[p].hOffset = loc[p].offset + loc'[p].bytesWritten
              /\ loc'[p].info.Offset = loc'[p].hOffset]_vars

\* A chunk was written to an upload that already held data.
C2_Witness ==
    \E p \in Procs :
        /\ pc[p] \in {"finish", "terminate"}
        /\ loc[p].offset > 0
        /\ loc[p].bytesWritten > 0

\* C3: the Upload-Offset of a HEAD response is the sum of the bytes written
\* to the upload so far, and the Upload-Offset of a successful PATCH response
\* is the offset the store holds, which a HEAD sent next would return.
C3_OffsetIsSumOfWrites ==
    \A p \in Procs :
        /\ Answered(p, "HEAD") /\ loc[p].rerr = "" =>
              loc[p].roffset = hist.written[loc[p].id]
        /\ Answered(p, "PATCH") /\ loc[p].rerr = "" =>
              /\ loc[p].roffset = Stored(p).Offset
              /\ loc[p].roffset = hist.written[loc[p].id]

\* A HEAD was answered for an upload that holds data.
C3_Witness ==
    \E p \in Procs :
        /\ Answered(p, "HEAD")
        /\ loc[p].rerr = ""
        /\ loc[p].roffset > 0

\* C4: no upload of known size has an offset beyond its size.
C4_OffsetWithinSize ==
    \A i \in IDs :
        store[i].state # "none" /\ ~store[i].info.SizeIsDeferred =>
            store[i].info.Offset <= store[i].info.Size

C7_FinalAlwaysComplete ==
    \A i \in IDs :
        store[i].state = "live" /\ store[i].info.IsFinal =>
            store[i].info.Offset = store[i].info.Size

\* C7, amended: a final upload has its offset equal to its size once
\* ConcatUploads has succeeded for it, and holds nothing before; the POST
\* that creates it answers with success only after ConcatUploads succeeded.
C7_FinalCompleteAfterConcat ==
    /\ \A i \in IDs :
          store[i].state = "live" /\ store[i].info.IsFinal =>
              IF store[i].finished > 0
                THEN store[i].info.Offset = store[i].info.Size
                ELSE store[i].info.Offset = 0
    /\ \A p \in Procs :
          Answered(p, "POST") /\ loc[p].rerr = "" /\ loc[p].info.IsFinal =>
              store[loc[p].id].finished > 0

\* A final upload that holds data was concatenated.
C7_Witness ==
    \E i \in IDs :
        /\ store[i].state = "live"
        /\ store[i].info.IsFinal
        /\ store[i].finished > 0
        /\ store[i].info.Size > 0

\* C8: a handler locks at most once, has released the lock exactly once
\* when it has returned, and never unlocks what it did not lock; the locker
\* holds a lock for a request exactly while the request's handler holds it.
C8_LockReleasedOnce ==
    \A p \in Procs :
        /\ loc[p].nLock <= 1
        /\ loc[p].nUnlock <= loc[p].nLock
        /\ loc[p].held <=> loc[p].nLock = loc[p].nUnlock + 1
        /\ \A i \in IDs : locks[i] = p <=> loc[p].held /\ loc[p].id = i
        /\ pc[p] = "done" => ~loc[p].held /\ loc[p].nUnlock = loc[p].nLock

\* A handler that took the lock has returned with an error.
C8_Witness ==
    \E p \in Procs :
        /\ pc[p] = "done"
        /\ loc[p].nLock = 1
        /\ loc[p].nUnlock = 1
        /\ loc[p].rerr \in {"ErrStore", "ErrSizeExceeded", "ErrUploadInterrupted"}

\* C9: a lock holder whose context a peer cancelled with
\* ErrUploadInterrupted before its transfer began, and which then makes the
\* transfer, answers with a failure.
C9_InterruptedHolderFails ==
    \A p \in Procs :
        /\ pc[p] = "done"
        /\ ctx[p].cause = "ErrUploadInterrupted"
        /\ ctx[p].seen = "nil"
        /\ "WriteChunk" \in loc[p].ops
        => loc[p].rerr # ""

\* C10: no UploadProgress event of an upload is emitted after its
\* CompleteUploads or TerminatedUploads event, and none before its
\* CreatedUploads event.
C10_ProgressInOrder ==
    \A i \in IDs : ~events[i].late /\ ~events[i].early

\* The errors of the checks a handler makes on a request's headers.
ValidationErrors ==
    {"ErrInvalidContentType", "ErrInvalidOffset", "ErrMismatchOffset",
     "ErrModifyFinal", "ErrInvalidUploadLength", "ErrMaxSizeExceeded",
     "ErrUploadLengthAndUploadDeferLength", "ErrInvalidConcat"}

\* Request p was rejected by the eager size test of writeChunk, before any
\* byte of its body was handed to the store.
EagerlyRejected(p) ==
    /\ pc[p] = "done"
    /\ loc[p].rerr = "ErrSizeExceeded"
    /\ "WriteChunk" \notin loc[p].ops

\* C11: a request rejected with a validation error, or by the eager
\* ErrSizeExceeded test, has invoked no mutating store operation.
C11_RejectedMutatesNothing ==
    \A p \in Procs :
        \/ pc[p] = "done" /\ loc[p].rerr \in ValidationErrors
        \/ EagerlyRejected(p)
        => loc[p].ops = {}

\* The transfer of request p, made by writeChunk, ended with an error.
TransferFailed(p) == loc[p].fin = "wc" /\ loc[p].err # ""

\* C12: after WriteChunk has returned, finish-if-complete is the next thing
\* the handler does (after the termination of a stopped upload), error or
\* not; when the transfer had an error and the new offset is the known size
\* FinishUpload is called all the same, and the error pending, which is the
\* one the client gets, stays the transfer's.
C12_FinishAttemptedAfterError ==
    [][\A p \in Procs :
          /\ pc[p] = "writing" /\ pc'[p] # "writing" =>
                pc'[p] \in {"finish", "terminate"}
          /\ pc[p] = "terminate" /\ rq[p].method # "DELETE" /\ pc'[p] # "terminate" =>
                pc'[p] = "finish"
          /\ pc[p] = "finish" /\ pc'[p] # "finish" /\ TransferFailed(p) =>
                /\ (~loc[p].info.SizeIsDeferred /\ loc[p].info.Offset = loc[p].info.Size
                        => "FinishUpload" \in loc'[p].ops)
                /\ pc'[p] \in {"done", "respond"}
                /\ loc'[p].err = loc[p].err
                /\ pc'[p] = "done" => loc'[p].rerr = loc[p].err
          /\ pc[p] = "respond" /\ pc'[p] = "done" => loc'[p].rerr = loc[p].err]_vars

\* A transfer that failed reached the size of the upload, and the request
\* was answered with the transfer's error after FinishUpload was called.
C12_Witness ==
    \E p \in Procs :
        /\ pc[p] = "done"
        /\ TransferFailed(p)
        /\ loc[p].rerr = loc[p].err
        /\ {"WriteChunk", "FinishUpload"} \subseteq loc[p].ops

\* The error of p's transfer by the rule that the store's error wins.
Expected(p) ==
    IF loc[p].storeErr # "" THEN loc[p].storeErr ELSE ctx[p].bodyErr

\* C13: the error of a chunk transfer is the error WriteChunk returned if
\* it returned one, whatever the body reader reports, and the body reader's
\* error otherwise; it is the error the client gets.
C13_StoreErrorWins ==
    \A p \in Procs :
        "WriteChunk" \in loc[p].ops /\ loc[p].fin = "wc" =>
            /\ pc[p] \in {"finish", "terminate"} => loc[p].err = Expected(p)
            /\ pc[p] \in {"respond", "done"} /\ Expected(p) # "" =>
                  loc[p].err = Expected(p)
            /\ pc[p] = "done" /\ Expected(p) # "" => loc[p].rerr = Expected(p)

\* WriteChunk and the body reader both reported an error.
C13_Witness ==
    \E p \in Procs :
        /\ pc[p] = "done"
        /\ loc[p].fin = "wc"
        /\ loc[p].storeErr # ""
        /\ ctx[p].bodyErr # ""
        /\ loc[p].rerr = loc[p].storeErr

\* C14: a chunk transfer goes on to terminate the upload exactly when the
\* body reader ended with ErrUploadStoppedByServer and the store can
\* terminate; nothing else in a transfer terminates an upload; whether the
\* termination fails or not the pending error stays and finish-if-complete
\* follows, and the client gets the transfer's error.
C14_StoppedUploadTerminated ==
    [][\A p \in Procs :
          /\ pc[p] = "writing" /\ pc'[p] # "writing" =>
                (pc'[p] = "terminate" <=>
                    /\ ctx'[p].bodyErr = "ErrUploadStoppedByServer"
                    /\ composer.UsesTerminater)
          /\ rq[p].method # "DELETE" /\ pc[p] = "terminate" /\ pc'[p] # "terminate" =>
                /\ "Terminate" \in loc'[p].ops
                /\ loc'[p].err = loc[p].err
                /\ pc'[p] = "finish"
          /\ rq[p].method # "DELETE" /\ "Terminate" \in loc'[p].ops
                                     /\ "Terminate" \notin loc[p].ops =>
                pc[p] = "terminate"
          /\ rq[p].method # "DELETE" /\ pc[p] # "done" /\ pc'[p] = "done"
                                     /\ "Terminate" \in loc'[p].ops =>
                loc'[p].rerr = IF loc'[p].storeErr # "" THEN loc'[p].storeErr
                               ELSE "ErrUploadStoppedByServer"]_vars

\* The termination of a stopped upload failed, and the client was told that
\* the upload was stopped.
C14_Witness ==
    \E p \in Procs :
        /\ pc[p] = "done"
        /\ rq[p].method # "DELETE"
        /\ "Terminate" \in loc[p].ops
        /\ Exists(loc[p].id)
        /\ loc[p].rerr = "ErrUploadStoppedByServer"

\* PatchFile of p answers 204 with the stored offset, without a store
\* operation and without opening the request body.
AnswersUnchanged(p) ==
    /\ pc'[p] = "done"
    /\ loc'[p].rerr = ""
    /\ loc'[p].status = 204
    /\ loc'[p].roffset = Stored(p).Offset
    /\ loc'[p].ops = {}
    /\ store' = store
    /\ ctx'[p] = ctx[p]
    /\ ctx[p].body = "nil"

\* PatchFile of p checks an upload of known size that has reached its size,
\* with the request's Upload-Offset equal to the stored offset.
ChecksComplete(p) ==
    /\ Checking(p)
    /\ rq[p].uploadOffset = Stored(p).Offset
    /\ ~Stored(p).SizeIsDeferred
    /\ Stored(p).Offset = Stored(p).Size

Declares(p) ==
    /\ pc[p] \in {"declare", "completeDeferred"}
    /\ pc'[p] # pc[p]
    /\ "DeclareLength" \in loc'[p].ops

\* The length request p declares: the Upload-Length of a PATCH, or after a
\* transfer with Upload-Complete the offset of the upload.
DeclaredLength(p) ==
    IF pc[p] = "declare" THEN rq[p].uploadLength ELSE Stored(p).Offset

\* C16: DeclareLength is invoked only on an upload whose length is still
\* deferred, with a length that is at least the upload's offset and, with a
\* MaxSize, at most MaxSize; a PATCH with Upload-Length that comes to
\* transfer to an upload of known size is rejected with
\* ErrInvalidUploadLength.
C16_LengthDeclaredOnce ==
    [][\A p \in Procs :
          /\ Declares(p) =>
                /\ Stored(p).SizeIsDeferred
                /\ DeclaredLength(p) >= Stored(p).Offset
                /\ config.MaxSize > 0 => DeclaredLength(p) <= config.MaxSize
          /\ /\ Checking(p)
             /\ composer.UsesLengthDeferrer
             /\ rq[p].uploadLength # -1
             /\ ~Stored(p).SizeIsDeferred
             /\ ~Stored(p).IsFinal
             /\ rq[p].uploadOffset = Stored(p).Offset
             /\ Stored(p).Offset # Stored(p).Size
             => Rejects(p, "ErrInvalidUploadLength")]_vars

\* The sum of the sizes of the uploads ids.
RECURSIVE SumOfSizes(_)
SumOfSizes(ids) ==
    IF Len(ids) = 0 THEN 0
    ELSE store[Head(ids)].info.Size + SumOfSizes(Tail(ids))

\* PostFile of p creates final upload i in this step.
CreatesFinal(p, i) ==
    /\ pc[p] = "idle"
    /\ store[i].state = "none"
    /\ store'[i].state = "live"
    /\ store'[i].info.IsFinal
    /\ loc'[p].id = i

\* C17: a final upload is created only from uploads that exist, are
\* partial uploads and are complete, and its size is the sum of their sizes.
C17_FinalOfCompletePartials ==
    [][\A p \in Procs : \A i \in IDs :
          CreatesFinal(p, i) =>
              /\ rq'[p].concat = "final"
              /\ Len(rq'[p].parts) > 0
              /\ \A k \in 1..Len(rq'[p].parts) :
                    LET part == store[rq'[p].parts[k]]
                    IN  /\ part.state = "live"
                        /\ part.info.IsPartial
                        /\ ~part.info.SizeIsDeferred
                        /\ part.info.Offset = part.info.Size
              /\ store'[i].info.Size = SumOfSizes(rq'[p].parts)]_vars

\* C18: with a MaxSize no POST creates an upload of a size beyond MaxSize,
\* and without one no request is rejected with ErrMaxSizeExceeded.
C18_CreatedWithinMaxSize ==
    [][/\ \A i \in IDs :
              /\ config.MaxSize > 0
              /\ store[i].state = "none"
              /\ store'[i].state = "live"
              => store'[i].info.Size <= config.MaxSize
       /\ \A p \in Procs :
              loc'[p].rerr = "ErrMaxSizeExceeded" => config.MaxSize > 0]_vars

\* C19: the cap given to the body reader of a transfer is at most each of
\* the bounds that apply (Size - Offset for a known size, MaxSize - Offset
\* for a deferred length with a MaxSize, a Content-Length above 0), and no
\* upload of deferred length holds more than MaxSize bytes.
C19_CapIsTightest ==
    /\ \A p \in Procs :
          pc[p] = "writing" =>
              LET info == loc[p].info
              IN  /\ ~info.SizeIsDeferred =>
                        loc[p].maxSize <= info.Size - loc[p].offset
                  /\ info.SizeIsDeferred /\ config.MaxSize > 0 =>
                        loc[p].maxSize <= config.MaxSize - loc[p].offset
                  /\ rq[p].length > 0 => loc[p].maxSize <= rq[p].length
    /\ \A i \in IDs :
          config.MaxSize > 0 /\ store[i].info.SizeIsDeferred =>
              store[i].info.Offset <= config.MaxSize

\* Request p is an answered tus-v1 POST for an upload that is not final.
AnsweredCreation(p) ==
    /\ Answered(p, "POST")
    /\ ~isResumableUploadDraftRequest(rq[p])
    /\ ~(composer.UsesConcater /\ rq[p].concat = "final")

UnsupportedLength(p) ==
    /\ Answered(p, "PATCH")
    /\ rq[p].uploadLength # -1
    /\ ~composer.UsesLengthDeferrer

\* Request p is an answered tus-v1 POST with an Upload-Concat header for a
\* store without the concatenation extension.
UnsupportedConcat(p) ==
    /\ Answered(p, "POST")
    /\ ~isResumableUploadDraftRequest(rq[p])
    /\ rq[p].concat # ""
    /\ ~composer.UsesConcater

\* Request p was answered with ErrNotImplemented before any lock or store
\* operation.
NotImplementedAtOnce(p) ==
    /\ loc[p].rerr = "ErrNotImplemented"
    /\ loc[p].ops = {}
    /\ ~loc[p].touched
    /\ loc[p].nLock = 0

AnswersOnGone(p, from) ==
    /\ pc[p] \in from
    /\ pc'[p] = "done"
    /\ rq'[p].method \in {"HEAD", "PATCH", "GET", "DELETE"}
    /\ store[rq'[p].id].state = "gone"

\* C22: after a DELETE on an existing upload succeeded, every later HEAD,
\* PATCH, GET or DELETE on the same ID fails with ErrNotFound (404) and
\* performs no further mutation; a repeated DELETE leaves the store as the
\* first one left it.
C22_GoneStaysGone ==
    [][\A p \in Procs :
          AnswersOnGone(p, {"idle", "lock", "load"}) =>
              /\ loc'[p].rerr = "ErrNotFound"
              /\ loc'[p].status = 404
              /\ loc'[p].ops = {}
              /\ store' = store]_vars

\* C22, amended: a later HEAD, PATCH, GET or DELETE on the ID of a
\* terminated upload that acquires the lock fails with ErrNotFound (404), a
\* PATCH without the Content-Type of a chunk or without a valid
\* Upload-Offset is rejected before that with ErrInvalidContentType or
\* ErrInvalidOffset, and a request that does not get the lock fails with the
\* lock's error; none of them performs a mutation, and a request that finds
\* the upload gone goes nowhere but to its response.
C22_GoneStaysGoneOnceLocked ==
    [][\A p \in Procs :
          /\ AnswersOnGone(p, {"idle"}) =>
                /\ rq'[p].method = "PATCH"
                /\ loc'[p].rerr \in {"ErrInvalidContentType", "ErrInvalidOffset"}
          /\ AnswersOnGone(p, {"lock"}) =>
                loc'[p].rerr \in {"ErrFileLocked", "ErrLockTimeout"}
          /\ AnswersOnGone(p, {"load"}) =>
                loc'[p].rerr = "ErrNotFound" /\ loc'[p].status = 404
          /\ AnswersOnGone(p, {"idle", "lock", "load"}) =>
                loc'[p].ops = {} /\ store' = store
          /\ pc[p] = "load" /\ pc'[p] # "load" /\ store[loc[p].id].state = "gone" =>
                pc'[p] = "done"]_vars

\* C22: a DELETE was repeated on a terminated upload and answered 404.
C22_Witness ==
    \E p \in Procs :
        /\ Answered(p, "DELETE")
        /\ store[rq[p].id].state = "gone"
        /\ loc[p].nLock = 1
        /\ loc[p].rerr = "ErrNotFound"

\* The configuration flag of the notification channel of a kind of event.
NotifyFlag(kind) ==
    CASE kind = "created" -> config.NotifyCreatedUploads
      [] kind = "completed" -> config.NotifyCompleteUploads
      [] kind = "terminated" -> config.NotifyTerminatedUploads
      [] OTHER -> FALSE

\* C23: no event is ever sent on a notification channel whose configuration
\* flag is off (CreatedUploads, UploadProgress, CompleteUploads,
\* TerminatedUploads), and with a flag off no handler blocks on that channel
\* and no progress emitter runs.
C23_NoEventWithoutFlag ==
    /\ \A p \in Procs :
          /\ sending[p] # NoEvent => NotifyFlag(sending[p].kind)
          /\ emitter[p].active => config.NotifyUploadProgress
    /\ \A i \in IDs :
          /\ events[i].created => config.NotifyCreatedUploads
          /\ events[i].progress => config.NotifyUploadProgress
          /\ events[i].completed > 0 => config.NotifyCompleteUploads
          /\ events[i].terminated => config.NotifyTerminatedUploads

\* C23: with progress notifications only, a transfer completed an upload and
\* the handler responded; a progress event was sent, no completion event.
C23_Witness ==
    \E p \in Procs :
        /\ pc[p] = "done"
        /\ loc[p].rerr = ""
        /\ "FinishUpload" \in loc[p].ops
        /\ config.NotifyUploadProgress
        /\ ~config.NotifyCompleteUploads
        /\ ~config.NotifyCreatedUploads
        /\ events[loc[p].id].progress
        /\ events[loc[p].id].completed = 0
        /\ sending[p] = NoEvent

\* The consumer has received an event of the given kind about upload id.
Received(ev, kind, id) ==
    CASE kind = "created" -> ev[id].created
      [] kind = "completed" -> ev[id].completed > 0
      [] kind = "terminated" -> ev[id].terminated
      [] OTHER -> FALSE

\* C24: emission on the Created, Completed and Terminated channels is
\* synchronous with the handler. While its event is not received the
\* handler stays at the emission point: it has sent no response, sends
\* none, makes no store operation and keeps the lock it holds; only the
\* consumer's receive ends the emission, so that without a consumer the
\* request never completes.
C24_EmissionBlocksHandler ==
    [][\A p \in Procs :
          sending[p] # NoEvent =>
              /\ pc[p] \notin {"idle", "done"}
              /\ pc'[p] = pc[p]
              /\ loc[p].status = 0 /\ loc'[p].status = 0
              /\ loc'[p].ops = loc[p].ops
              /\ loc'[p].held = loc[p].held
              /\ loc[p].held => locks[loc[p].id] = p /\ locks'[loc[p].id] = p
              /\ sending'[p] # sending[p] =>
                    /\ sending'[p] = NoEvent
                    /\ Received(events', sending[p].kind, sending[p].id)]_vars

\* C24: a handler blocks on its completion event while it holds the lock of
\* its upload, after FinishUpload and before its response.
C24_Witness ==
    \E p \in Procs :
        /\ sending[p] # NoEvent
        /\ sending[p].kind = "completed"
        /\ "FinishUpload" \in loc[p].ops
        /\ loc[p].held
        /\ locks[loc[p].id] = p
        /\ loc[p].status = 0

\* PatchFile of request p leaves, in this step, the finish-if-complete that
\* ends its chunk transfer.
EndsTransfer(p) ==
    /\ rq[p].method = "PATCH"
    /\ pc[p] = "finish"
    /\ loc[p].fin = "wc"
    /\ pc'[p] # "finish"

\* C29: after the chunk transfer of a PATCH the handler declares the length
\* as Size = Offset and runs finish-if-complete if and only if the request
\* is a draft-protocol request with Upload-Complete: ?1 and the upload is
\* still deferred; a tus-v1 PATCH never triggers this declaration, and
\* after it the upload is complete (SizeIsDeferred false, Offset == Size,
\* FinishUpload called).
C29_DraftCompleteDeclaresLength ==
    [][\A p \in Procs :
          /\ EndsTransfer(p) =>
                (pc'[p] = "completeDeferred"
                    <=> /\ loc'[p].err = ""
                        /\ isResumableUploadDraftRequest(rq[p])
                        /\ rq[p].complete
                        /\ loc[p].info.SizeIsDeferred)
          /\ rq[p].method = "PATCH" /\ pc'[p] = "completeDeferred" =>
                isResumableUploadDraftRequest(rq[p])
          /\ /\ rq[p].method = "PATCH"
             /\ pc[p] = "completeDeferred"
             /\ pc'[p] = "finish"
             => /\ loc'[p].info = store'[loc[p].id].info
                /\ ~loc'[p].info.SizeIsDeferred
                /\ loc'[p].info.Size = loc'[p].info.Offset
          /\ /\ rq[p].method = "PATCH"
             /\ pc[p] = "finish"
             /\ loc[p].fin = "complete"
             /\ pc'[p] # "finish"
             => "FinishUpload" \in loc'[p].ops]_vars

\* The POST of request p is answered in this step after its
\* PreUploadCreateCallback hook returned an error.
RejectedByHook(p) ==
    /\ pc[p] = "idle"
    /\ pc'[p] = "done"
    /\ rq'[p].method = "POST"
    /\ loc'[p].hookErr # ""

\* The creation that was refused left no trace: NewUpload was not called,
\* no upload was added to the store, no event is sent or was received.
NothingCreated(p) ==
    /\ loc'[p].ops = {}
    /\ store' = store
    /\ alloc'.nextId = alloc.nextId
    /\ sending' = sending
    /\ events' = events

\* C30: when the PreUploadCreateCallback hook rejects a creation (returns
\* an error), the POST fails with ErrUploadRejectedByServer, NewUpload is
\* never called, no CreatedUploads event is emitted and no upload exists for
\* the request.
C30_HookRejectionCreatesNothing ==
    [][\A p \in Procs :
          /\ loc'[p].hookErr # "" /\ pc'[p] # "idle" => RejectedByHook(p)
          /\ RejectedByHook(p) =>
                /\ loc'[p].rerr = "ErrUploadRejectedByServer"
                /\ NothingCreated(p)]_vars

\* C30, amended: when the PreUploadCreateCallback hook returns an error the
\* POST fails with that error, whichever it is (ErrUploadRejectedByServer
\* if the hook returned it, 500 for an error that is not one of the
\* protocol's); NewUpload is never called, no CreatedUploads event is
\* emitted and no upload exists for the request.
C30_HookErrorCreatesNothing ==
    [][\A p \in Procs :
          /\ loc'[p].hookErr # "" /\ pc'[p] # "idle" => RejectedByHook(p)
          /\ RejectedByHook(p) =>
                /\ loc'[p].rerr = loc'[p].hookErr
                /\ loc'[p].status = ErrStatus(loc'[p].hookErr)
                /\ NothingCreated(p)]_vars

\* C30: a POST was rejected by the hook of a handler that announces
\* creations, and no upload was created.
C30_Witness ==
    \E p \in Procs :
        /\ Answered(p, "POST")
        /\ loc[p].hookErr = "ErrUploadRejectedByServer"
        /\ loc[p].status = 400
        /\ config.NotifyCreatedUploads
        /\ alloc.nextId = 1
        /\ \A i \in IDs : store[i].state = "none" /\ ~events[i].created

\* The Middleware has run for the request.
Served == mw.stage \notin {"idle", "new"}

\* C25: every response produced for a request that passes through the
\* Middleware carries X-Content-Type-Options: nosniff, the error responses
\* of the Middleware itself (ErrOriginNotAllowed, ErrUnsupportedVersion) and
\* the OPTIONS response included.
C25_NosniffOnEveryResponse ==
    mw.status # 0 => <<"X-Content-Type-Options", "nosniff">> \in mw.header

\* The request fails the test of the version: it is a tus-v1 request whose
\* effective method is not GET, HEAD or OPTIONS and whose Tus-Resumable is
\* not 1.0.0.
UnsupportedVersion ==
    /\ mw.method \notin {"GET", "HEAD", "OPTIONS"}
    /\ mw.r.tusResumable # "1.0.0"
    /\ ~(config.EnableExperimentalProtocol /\ mw.r.draft)

\* The request fails the test of its origin.
OriginNotAllowed ==
    /\ ~config.Cors.Disable
    /\ mw.r.origin \notin AllowedOrigins \cup {""}

\* The request was answered by the Middleware with the given error and was
\* not dispatched; no handler ran, so that nothing was locked or stored.
RejectedWith(e) ==
    /\ mw.err = e
    /\ mw.status = ErrStatus(e)
    /\ ~mw.routed
    /\ \A i \in IDs : store[i] = NoUpload /\ locks[i] = NoProc

\* C26: a tus-v1 request whose effective method is not GET, HEAD or OPTIONS
\* and whose Tus-Resumable header is not exactly 1.0.0 is rejected by the
\* Middleware with ErrUnsupportedVersion and never dispatched to a protocol
\* handler; draft requests and GET, HEAD and OPTIONS requests are not
\* subject to this check.
C26_UnsupportedVersionRejected ==
    Served =>
        /\ UnsupportedVersion => RejectedWith("ErrUnsupportedVersion")
        /\ mw.err = "ErrUnsupportedVersion" => UnsupportedVersion

\* C26, amended: such a request is never dispatched, and is rejected with
\* ErrUnsupportedVersion unless its origin is not allowed, in which case the
\* CORS check, which comes first, rejects it with ErrOriginNotAllowed; draft
\* requests and GET, HEAD and OPTIONS requests are not subject to the check
\* and are dispatched (answered, for OPTIONS) when their origin is allowed.
C26_UnsupportedVersionRejectedAfterCors ==
    Served =>
        /\ UnsupportedVersion =>
              IF OriginNotAllowed THEN RejectedWith("ErrOriginNotAllowed")
              ELSE RejectedWith("ErrUnsupportedVersion")
        /\ mw.err = "ErrUnsupportedVersion" => UnsupportedVersion
        /\ ~UnsupportedVersion /\ ~OriginNotAllowed =>
              /\ mw.err \notin {"ErrUnsupportedVersion", "ErrOriginNotAllowed"}
              /\ mw.routed <=> mw.method # "OPTIONS"

\* C26: a POST overridden to PATCH without Tus-Resumable was rejected with
\* ErrUnsupportedVersion.
C26_Witness ==
    /\ mw.stage = "responded"
    /\ mw.r.method = "POST"
    /\ mw.method = "PATCH"
    /\ mw.r.tusResumable = ""
    /\ mw.err = "ErrUnsupportedVersion"
    /\ mw.status = 412
    /\ ~mw.routed

\* The method the claim has the Middleware use for a request.
MethodUsed ==
    IF mw.r.method = "POST" /\ mw.r.override # "" THEN mw.r.override
    ELSE mw.r.method

\* C27: the Middleware replaces the request method by the value of
\* X-HTTP-Method-Override only when the original method is POST and the
\* header is not empty; for every other original method the method used for
\* CORS handling, version checking and routing is the original one.
C27_OverrideOnlyForPost ==
    Served =>
        /\ mw.method = MethodUsed
        /\ mw.r.method # "POST" => mw.method = mw.r.method
        /\ <<"Access-Control-Max-Age", "cors.MaxAge">> \in mw.header =>
              MethodUsed = "OPTIONS"
        /\ <<"Access-Control-Expose-Headers", "cors.ExposeHeaders">> \in mw.header =>
              MethodUsed # "OPTIONS"
        /\ mw.err = "ErrUnsupportedVersion" =>
              MethodUsed \notin {"GET", "HEAD", "OPTIONS"}
        /\ mw.routed => MethodUsed # "OPTIONS"
        /\ mw.err = "" /\ ~mw.routed => MethodUsed = "OPTIONS"

\* C27: a HEAD request with an X-HTTP-Method-Override header was routed as
\* HEAD, without the test of the version that the override would bring.
C27_Witness ==
    /\ mw.r.method = "HEAD"
    /\ mw.r.override = "PATCH"
    /\ mw.r.tusResumable = ""
    /\ mw.method = "HEAD"
    /\ mw.routed

\* C28: the delayed context handed to store operations is never done
\* before the cancellable request context is done; once the cancellable
\* context is done the delayed context becomes done only after
\* GracefulRequestCompletionTimeout has elapsed, and it does eventually
\* become done.
C28_DelayedDoneAfterTimeout ==
    /\ [](delayed.done =>
            /\ cancellableDone(delayed)
            /\ delayed.since >= config.GracefulRequestCompletionTimeout)
    /\ (cancellableDone(delayed) ~> delayed.done)

\* C28: the handling of a request was cancelled with a cause while it was
\* served, and the delayed context is done after the longest timeout.
C28_Witness ==
    /\ delayed.done
    /\ delayed.cause = "ErrUploadInterrupted"
    /\ config.GracefulRequestCompletionTimeout = MaxDelay
    /\ delayed.elapsed = MaxDelay

\* A request's metadata map has been serialized and parsed back.
RoundTrip == metadata.stage = "parsed" /\ metadata.elements = <<>>

\* A client's header has been parsed.
HeaderParsed == metadata.stage = "parsed" /\ metadata.elements # <<>>

\* The element is one of those ParseMetadataHeader drops: more than two
\* parts, an empty key, or a value that is not base64.
Malformed(element) ==
    LET parts == Split(TrimSpace(element), Char.space)
    IN  \/ Len(parts) > 2
        \/ parts[1] = <<>>
        \/ Len(parts) = 2 /\ DecodeString(parts[2]).err

\* The key of an element that is not malformed.
KeyOf(element) == Split(TrimSpace(element), Char.space)[1]

\* The elements without the malformed ones.
RECURSIVE WellFormed(_)
WellFormed(elements) ==
    IF elements = <<>> THEN <<>>
    ELSE IF Malformed(Head(elements)) THEN WellFormed(Tail(elements))
    ELSE <<Head(elements)>> \o WellFormed(Tail(elements))

\* A header is parsed as the header without its malformed elements is, and
\* every other element gives a key to the map.
DropsMalformed ==
    HeaderParsed =>
        /\ metadata.parsed = ParseMetadataHeader(Join(WellFormed(metadata.elements)))
        /\ DOMAIN metadata.parsed =
              {KeyOf(metadata.elements[i]) :
                  i \in {j \in DOMAIN metadata.elements : ~Malformed(metadata.elements[j])}}

\* C31 as stated: for every metadata map with valid keys (not empty, without
\* space or comma), parsing the serialized map gives the map back, whatever
\* the order of serialization and also for empty values; and a malformed
\* element of a header is dropped without affecting the other elements.
C31_MetadataRoundTrip ==
    /\ RoundTrip => metadata.parsed = metadata.meta
    /\ DropsMalformed

\* C31 amended: the round trip gives the map back when, in addition, no key
\* starts or ends with white space such as a tab, which TrimSpace removes.
C31_MetadataRoundTripOfTrimmedKeys ==
    /\ (RoundTrip /\ \A k \in DOMAIN metadata.meta : TrimSpace(k) = k)
          => metadata.parsed = metadata.meta
    /\ DropsMalformed

\* A map with an empty and a non-empty value came back from the round trip.
C31_Witness ==
    /\ RoundTrip
    /\ metadata.parsed = metadata.meta
    /\ \E k1, k2 \in DOMAIN metadata.meta :
          /\ metadata.meta[k1] = <<>>
          /\ Len(metadata.meta[k2]) = 1

\* A header with a malformed element between two others has been parsed.
C31_WitnessDropped ==
    /\ HeaderParsed
    /\ Len(metadata.elements) = 3
    /\ Malformed(metadata.elements[2])
    /\ Cardinality(DOMAIN metadata.parsed) = 2

\* Request p was answered with an error.
AnsweredError(p) == pc[p] = "done" /\ loc[p].rerr # ""

\* C32: every error response is produced by sendError: an error that is not
\* of the catalog is sent as ERR_INTERNAL_SERVER_ERROR with status 500, an
\* error of the catalog with its own code and status, and the body of an
\* error response to a HEAD request is empty; no response with an error
\* status is sent in another way.
C32_ErrorsSentBySendError ==
    \A p \in Procs :
        /\ AnsweredError(p) =>
              /\ loc[p].rvia = "sendError"
              /\ loc[p].rerr \in Catalog =>
                    /\ loc[p].rcode = loc[p].rerr
                    /\ loc[p].status = ErrStatus(loc[p].rerr)
              /\ loc[p].rerr \notin Catalog =>
                    /\ loc[p].rcode = "ERR_INTERNAL_SERVER_ERROR"
                    /\ loc[p].status = 500
              /\ loc[p].rbody = (rq[p].method # "HEAD")
        /\ (pc[p] = "done" /\ loc[p].status >= 400) => AnsweredError(p)

\* A HEAD request for an upload that does not exist was answered 404 by
\* sendError, without a body.
C32_Witness ==
    \E p \in Procs :
        /\ AnsweredError(p)
        /\ rq[p].method = "HEAD"
        /\ loc[p].rvia = "sendError"
        /\ loc[p].rcode = "ErrNotFound"
        /\ loc[p].status = 404
        /\ ~loc[p].rbody

\* Request p is a POST that created its upload and has been answered.
AnsweredAfterCreation(p) ==
    /\ Answered(p, "POST")
    /\ "NewUpload" \in loc[p].ops
    /\ loc[p].id # 0

\* C33: once a POST has created the upload, every response to it carries the
\* Location header of the upload, the error responses included.
C33_LocationAfterCreation ==
    \A p \in Procs : AnsweredAfterCreation(p) => loc[p].rlocation

\* A POST created its upload and was answered with an error.
C33_Witness ==
    \E p \in Procs : AnsweredAfterCreation(p) /\ loc[p].rerr # ""

\* The composer the headers of a request select: the one of its bucket, or
\* the composer configured at construction.
SelectedBy(r) == IF r.bucket # "" THEN r.bucket ELSE "default"

\* C34: the store that serves a request is determined by the headers of that
\* request only: a request without a bucket-name header is served by the
\* composer configured at construction, whatever earlier requests carried.
C34_StoreOfOwnHeaders ==
    \A p \in Procs :
        LET r == buckets.r[p]
        IN  r.bucket = "" =>
                /\ r.stage \in {"locked", "loaded"} => r.lockedIn = SelectedBy(r)
                /\ r.stage = "loaded" => r.loadedIn = SelectedBy(r)

\* C35: all lock and store operations of a request use the one composer its
\* preamble selected, also when requests with other bucket-name headers are
\* served concurrently: no request locks an ID in one store and loads the
\* upload from another.
C35_OneComposerPerRequest ==
    \A p \in Procs :
        LET r == buckets.r[p]
        IN  (r.stage = "loaded" /\ r.bucket # "") =>
                /\ r.lockedIn = r.bucket
                /\ r.loadedIn = r.bucket

\* Request p calls WriteChunk on its upload, which exists.
CallsWriteChunk(p) ==
    /\ pc[p] = "writing"
    /\ pc'[p] # "writing"
    /\ Exists(loc[p].id)

\* C36: every WriteChunk call is made at the offset the store holds for the
\* upload while the caller has the lock: the FileInfo a POST with a body
\* uses for its transfer is not stale.
C36_WriteAtStoredOffset ==
    [][\A p \in Procs :
          CallsWriteChunk(p) =>
              loc[p].offset = store[loc[p].id].info.Offset]_vars

\* C37: over the lifetime of an upload of any kind and size, the completion
\* by FinishUpload or ConcatUploads is performed at most once and at most one
\* CompleteUploads event is emitted.
C37_CompletedOnce ==
    \A i \in IDs :
        /\ store[i].finished <= 1
        /\ events[i].completed <= 1

\* Request p, whose transfer was stopped by the server, takes the
\* finish-if-complete step after it terminated its upload.
FinishesAfterTermination(p) ==
    /\ pc[p] = "finish"
    /\ pc'[p] # "finish"
    /\ stoppedByServer(ctx[p].bodyErr)
    /\ "Terminate" \in loc[p].ops
    /\ store[loc[p].id].state = "gone"

\* C38: no upload that has a TerminatedUploads event gets a CompleteUploads
\* event, and after a stopped transfer terminated the upload the
\* finish-if-complete step neither calls FinishUpload nor announces the
\* upload as completed.
C38_NoFinishAfterTermination ==
    [][/\ \A i \in IDs :
             events[i].terminated => events'[i].completed = events[i].completed
       /\ \A p \in Procs :
             FinishesAfterTermination(p) =>
                 /\ "FinishUpload" \notin loc'[p].ops
                 /\ sending'[p].kind # "completed"]_vars

\* The causes the goroutine of newContext relays to the body reader.
RelayedCauses ==
    {"ErrServerShutdown", "ErrUploadInterrupted", "ErrUploadStoppedByServer"}

\* C39: when the context of a request is cancelled with one of the relayed
\* causes at any point before or during its chunk transfer, also before
\* writeChunk installed the body reader, the body reader is closed with that
\* cause: the transfer does not read the body as if nothing had happened.
C39_CancellationReachesBody ==
    \A p \in Procs :
        /\ ctx[p].cause \in RelayedCauses
        /\ ctx[p].seen = "nil"
        /\ "WriteChunk" \in loc[p].ops
        => ctx[p].bodyErr = ctx[p].cause

\* PatchFile of p checks, under the lock, a PATCH at the final offset of an
\* upload that has all its bytes but was never finished, while no other
\* request works on the upload: the FinishUpload of the request that wrote
\* the last byte failed.
RetriesFinish(p) ==
    /\ Checking(p)
    /\ ~Stored(p).IsFinal
    /\ IsComplete(Stored(p))
    /\ rq[p].uploadOffset = Stored(p).Offset
    /\ store[loc[p].id].finished = 0
    /\ \A q \in Procs \ {p} : pc[q] \in {"idle", "done"} \/ loc[q].id # loc[p].id

\* C40: an upload that reached Offset = Size is finished when the client
\* retries: a PATCH at the final offset of an upload whose FinishUpload
\* failed calls FinishUpload again and is not answered 204 without it.
C40_RetryFinishes ==
    [][\A p \in Procs :
          RetriesFinish(p) =>
              ~(pc'[p] = "done" /\ loc'[p].status = 204
                /\ "FinishUpload" \notin loc'[p].ops)]_vars

====
